---- MODULE Spec2Model ----
(***************************************************************************)
(* Time-session lifecycle engine of professional-tracker.                  *)
(*                                                                         *)
(* The store is three tables (time_sessions, session_breaks,               *)
(* user_active_sessions) plus the professional_projects table (the IDs of   *)
(* its rows and their calculated totals) and project_assignments.  Every   *)
(* request is served by its own goroutine: a request is a process that     *)
(* walks through the store calls of the service method it runs, one store  *)
(* call per step, so that the calls of concurrent requests interleave.   *)
(* A write (Create, Update, Delete) may fail; a read fails only when the   *)
(* row it looks for is absent.                                             *)
(* The reports, CalculateProjectTotals and UpdateProjectAssignment are     *)
(* one step each: they are part of the specifications in which requests    *)
(* run one after the other.                                                *)
(*                                                                         *)
(* A Go pointer is a sequence of length at most one: <<>> is nil and       *)
(* <<x>> points at x.  An error is the sequence of the messages wrapped    *)
(* with %w, outermost first; <<>> is the nil error.  Times are whole       *)
(* minutes of one clock.                                                   *)
(***************************************************************************)
EXTENDS Integers, Sequences, FiniteSets, TLC

\* ------------------------------------------------------------------ bounds
MaxTime == 1
MaxSessions == 2
MaxBreaks == 2
MaxFaults == 2
MaxRequests == 3

Procs == {1, 2}
Users == {"u1", "u2"}
Companies == {"A", "B"}
\* the rows of professional_projects, and the project IDs a request may
\* name: a stored one and one that is not stored
StoredProjects == {1}
ProjectIDs == {1, 2}

Nil == <<>>
Some(x) == <<x>>
Val(o) == o[1]
\* hourly rates a request may carry: none, or 50 per hour
Rates == {Nil, Some(50)}

\* ------------------------------------------------------------ db constants
SessionTypeWork == "work"
SessionTypeBreak == "break"
SessionTypeLunch == "lunch"
SessionTypeBRB == "brb"
BreakTypeShort == "break"
BreakTypeLunch == "lunch"
BreakTypeBRB == "brb"
\* break kinds a request may carry: the three constants, the spec's name
\* for the first one, and a kind that is none of them
BreakTypeInputs == {BreakTypeShort, BreakTypeLunch, BreakTypeBRB, "short", "nap"}

\* ------------------------------------------------------------- error texts
NoErr == <<>>
ErrAlreadyActive == "user already has an active session - finish current session first"
ErrProjectNotFound == "project not found"
ErrRecordNotFound == "record not found"
ErrStore == "store error"
ErrCreateSession == "failed to create session"
ErrCreateActive == "failed to create active session record"
ErrNoActive == "no active session found"
ErrNoActiveForUser == "no active session found for user"
ErrEndActiveBreak == "failed to end active break"
ErrSessionNotFound == "session not found"
ErrUpdateSession == "failed to update session"
ErrRemoveActive == "failed to remove active session record"
ErrAlreadyOnBreak == "already on break - end current break first"
ErrInvalidBreakType == "invalid break type - use: break, lunch, or brb"
ErrCreateBreak == "failed to create break record"
ErrUpdateActive == "failed to update active session"
ErrNotOnBreak == "not currently on break"
ErrBreakNotFound == "break record not found"
ErrUpdateBreak == "failed to update break record"
ErrFinishCurrent == "failed to finish current session"
ErrStartNew == "failed to start new session"
ErrProfessionalProjectNotFound == "professional project not found"
ErrAssignmentNotFound == "projectAssignment project not found"
ErrAccessDenied ==
    "access denied: projectAssignment project is private to the worker"
ErrUpdateAssignment == "failed to update projectAssignment project"
ErrProjectHasActiveSessions ==
    "cannot delete project with active time sessions"
ErrDeleteProject == "failed to delete professional project"

VARIABLES
    sessions,        \* rows of time_sessions
    breaks,          \* rows of session_breaks
    activeSessions,  \* rows of user_active_sessions
    projects,        \* IDs of the rows of professional_projects
    projectTotals,   \* TotalHours and TotalSalaryCost of each of those rows
    assignments,     \* rows of project_assignments
    nextSessionID,   \* next auto-increment ID of time_sessions
    nextBreakID,     \* next auto-increment ID of session_breaks
    now,             \* the clock, in minutes
    faults,          \* store writes that have failed so far
    budget,          \* requests the run may still receive
    proc             \* the requests in flight, one record per process

vars == <<sessions, breaks, activeSessions, projects, projectTotals,
          assignments, nextSessionID,
          nextBreakID, now, faults, budget, proc>>
store == <<sessions, breaks, activeSessions, projects, projectTotals,
           assignments>>

\* ------------------------------------------------------------------- rows
\* db.TimeSession as StartWorkSession builds it, with the ID the insert gave
NewTimeSession(id, projectID, userID, companyID, hourlyRate, t) ==
    [ID |-> id, ProjectID |-> projectID, UserID |-> userID,
     CompanyID |-> companyID, StartTime |-> t, EndTime |-> Nil,
     SessionType |-> SessionTypeWork, DurationMinutes |-> 0,
     HourlyRate |-> hourlyRate, SessionCost |-> 0, IsActive |-> TRUE]

\* db.UserActiveSession as StartWorkSession builds it from the new session
NewUserActiveSession(session) ==
    [UserID |-> session.UserID, SessionID |-> session.ID,
     CompanyID |-> session.CompanyID, ProjectID |-> session.ProjectID,
     StartedAt |-> session.StartTime, LastActivityAt |-> session.StartTime,
     IsOnBreak |-> FALSE, CurrentBreakID |-> Nil]

\* the break built without its parent session
NewSessionBreakNoParent(id, sessionID, breakType, t) ==
    [ID |-> id, SessionID |-> 0, BreakType |-> breakType,
     StartTime |-> t, EndTime |-> Nil, DurationMinutes |-> 0,
     IsActive |-> TRUE]

\* db.SessionBreak as TakeBreak builds it, with the ID the insert gave
NewSessionBreak(id, sessionID, breakType, t) ==
    [ID |-> id, SessionID |-> sessionID, BreakType |-> breakType,
     StartTime |-> t, EndTime |-> Nil, DurationMinutes |-> 0,
     IsActive |-> TRUE]

\* ------------------------------------------------------------ calculator
\* the duration with the minutes of the session's closed breaks taken out
calculateDurationLessBreaks(session, t) ==
    (IF session.EndTime = Nil THEN t - session.StartTime
     ELSE Val(session.EndTime) - session.StartTime)
    - (IF \E b \in breaks : b.SessionID = session.ID /\ b.EndTime # Nil
       THEN LET b == CHOOSE c \in breaks :
                        c.SessionID = session.ID /\ c.EndTime # Nil IN
            Val(b.EndTime) - b.StartTime
       ELSE 0)

\* whole minutes between StartTime and EndTime, or the clock when open
calculateSessionDuration(session, t) ==
    IF session.EndTime = Nil THEN t - session.StartTime
    ELSE Val(session.EndTime) - session.StartTime

\* the cost with the minutes divided as integers: whole hours only
calculateCostOfWholeHours(session, t) ==
    IF session.HourlyRate = Nil THEN 0
    ELSE (calculateSessionDuration(session, t) \div 60) * 60
            * Val(session.HourlyRate)

\* (minutes / 60) * rate, kept exact by counting sixtieths of a currency
\* unit: the value stored is 60 times the Go float
calculateSessionCost(session, t) ==
    IF session.HourlyRate = Nil THEN 0
    ELSE calculateSessionDuration(session, t) * Val(session.HourlyRate)

calculateBreakDuration(breakRecord, t) ==
    IF breakRecord.EndTime = Nil THEN t - breakRecord.StartTime
    ELSE Val(breakRecord.EndTime) - breakRecord.StartTime

\* the validation that accepts every kind
AnyBreakType(breakType) == TRUE

isValidBreakType(breakType) ==
    breakType \in {BreakTypeShort, BreakTypeLunch, BreakTypeBRB}

\* ------------------------------------------------------------------ store
\* FindWhere(&sessions, "user_id = ?", userID) on user_active_sessions
ActiveRowsOf(rows, userID) == {a \in rows : a.UserID = userID}

\* FindByID on time_sessions / session_breaks
RowsByID(rows, id) == {r \in rows : r.ID = id}

\* the insert with no primary key on user_id
InsertWithoutPrimaryKey(rows, userID) == TRUE

\* INSERT into user_active_sessions: user_id is the primary key, so the
\* insert is refused while a row of that user is stored
ActiveInsertAllowed(rows, userID) == ActiveRowsOf(rows, userID) = {}

\* an update that writes nothing
UpdateWritesNothing(rows, row) == rows

\* Update (all columns, by primary key) of a row of time_sessions or
\* session_breaks: the stored row of that ID is replaced, no row is added
UpdateByID(rows, row) ==
    {r \in rows : r.ID # row.ID} \cup
    (IF RowsByID(rows, row.ID) = {} THEN {} ELSE {row})

\* Update (all columns, by primary key) of a row of user_active_sessions
UpdateActive(rows, row) ==
    {a \in rows : a.UserID # row.UserID} \cup
    (IF ActiveRowsOf(rows, row.UserID) = {} THEN {} ELSE {row})

\* a delete that removes nothing
DeleteActiveNoRow(rows, userID) == rows

\* Delete by primary key
DeleteByID(rows, id) == {r \in rows : r.ID # id}
DeleteActive(rows, userID) == {a \in rows : a.UserID # userID}

\* the check that finds the pointer of any user
AnyoneActive(userID) == activeSessions # {}

\* the check that never finds a pointer
NeverActive(userID) == FALSE

\* HasActiveSession / GetActiveSession read the same rows
HasActiveSession(userID) == ActiveRowsOf(activeSessions, userID) # {}

\* the totals of projects as created: both calculated fields default to 0
NoTotals ==
    [id \in StoredProjects |-> [TotalHours |-> 0, TotalSalaryCost |-> 0]]

\* db.ProjectAssignment: u1 is assigned to project 1 at 50 per hour
StoredAssignments ==
    {[ID |-> 1, ParentProjectID |-> 1, WorkerUserID |-> "u1",
      CostPerHour |-> 50, IsActive |-> TRUE]}

\* ----------------------------------------------------------------- reports
\* float64(duration) / 60.0 and Hours() / 24
MinutesPerHour == 60
HoursPerDay == 24
DayMinutes == HoursPerDay * MinutesPerHour

\* a quotient of two floats, kept exact as a fraction; the zero value of a
\* float field that was never assigned is 0/1
Quotient(n, d) == [num |-> n, den |-> d]
ZeroFloat == Quotient(0, 1)

\* GetUserSessionHistory: the user's sessions whose start_time lies in the
\* window, both bounds included
GetUserSessionHistory(userID, startDate, endDate) ==
    {x \in sessions : /\ x.UserID = userID
                      /\ x.StartTime >= startDate
                      /\ x.StartTime <= endDate}

\* the later of the report's timestamp and a session's created_at, which
\* StartWorkSession sets with its start_time
LaterOf(last, session) ==
    IF last = Nil \/ session.StartTime > Val(last)
    THEN Some(session.StartTime) ELSE last

\* the loop that adds the duration of every session to the hours, whatever
\* its kind
RECURSIVE FoldAllAsWork(_, _, _)
FoldAllAsWork(rows, report, t) ==
    IF rows = {} THEN report
    ELSE LET session == CHOOSE x \in rows : TRUE IN
         FoldAllAsWork(rows \ {session},
            [report EXCEPT
                !.TotalHours = @ + calculateSessionDuration(session, t),
                !.LastSession = LaterOf(@, session)], t)

\* the loop of GenerateUserTimeReport over the sessions not yet visited.
\* TotalHours and ProductiveHours count sixtieths of an hour.
RECURSIVE FoldUserReport(_, _, _)
FoldUserReport(rows, report, t) ==
    IF rows = {} THEN report
    ELSE LET session == CHOOSE x \in rows : TRUE
             duration == calculateSessionDuration(session, t)
             counted ==
                 IF session.SessionType = SessionTypeWork
                 THEN [report EXCEPT !.TotalHours = @ + duration]
                 ELSE [report EXCEPT !.BreakMinutes = @ + duration] IN
         FoldUserReport(rows \ {session},
                        [counted EXCEPT
                            !.LastSession = LaterOf(@, session)], t)

\* the report of GenerateUserTimeReport at clock t
UserTimeReport(userID, projectID, startDate, endDate, t) ==
    LET history == GetUserSessionHistory(userID, startDate, endDate)
        selected == IF projectID > 0
                    THEN {x \in history : x.ProjectID = projectID}
                    ELSE history
        folded == FoldUserReport(selected,
                     [UserID |-> userID, ProjectID |-> projectID,
                      TotalHours |-> 0,
                      WorkSessions |-> Cardinality(selected),
                      BreakMinutes |-> 0, ProductiveHours |-> 0,
                      LastSession |-> Nil, AverageDaily |-> ZeroFloat], t)
        report == [folded EXCEPT
                      !.ProductiveHours = folded.TotalHours
                                            - folded.BreakMinutes] IN
    IF endDate - startDate > 0
    THEN [report EXCEPT
            !.AverageDaily = Quotient(report.TotalHours * DayMinutes,
                                      endDate - startDate)]
    ELSE report

\* the loop of the project service's GetUserTimeReportCtx, which also counts
\* the work sessions
RECURSIVE FoldUserReportCtx(_, _, _)
FoldUserReportCtx(rows, report, t) ==
    IF rows = {} THEN report
    ELSE LET session == CHOOSE x \in rows : TRUE
             duration == calculateSessionDuration(session, t)
             counted ==
                 IF session.SessionType = SessionTypeWork
                 THEN [report EXCEPT !.TotalHours = @ + duration,
                                     !.WorkSessions = @ + 1]
                 ELSE [report EXCEPT !.BreakMinutes = @ + duration] IN
         FoldUserReportCtx(rows \ {session},
                           [counted EXCEPT
                               !.LastSession = LaterOf(@, session)], t)

\* the report of the project service's GetUserTimeReportCtx at clock t; each
\* end of the window is optional, and no daily average is computed
GetUserTimeReportCtx(userID, startDate, endDate, t) ==
    LET selected ==
            {x \in sessions :
                /\ x.UserID = userID
                /\ startDate # Nil => x.StartTime >= Val(startDate)
                /\ endDate # Nil => x.StartTime <= Val(endDate)}
        folded == FoldUserReportCtx(selected,
                     [UserID |-> userID, ProjectID |-> 0, TotalHours |-> 0,
                      WorkSessions |-> 0, BreakMinutes |-> 0,
                      ProductiveHours |-> 0, LastSession |-> Nil,
                      AverageDaily |-> ZeroFloat], t) IN
    [folded EXCEPT
        !.ProductiveHours = folded.TotalHours - folded.BreakMinutes]

\* the sums of CalculateProjectTotals over the sessions not yet visited,
\* hours in sixtieths of an hour and cost in sixtieths of a currency unit
RECURSIVE FoldProjectTotals(_, _, _)
FoldProjectTotals(rows, totals, t) ==
    IF rows = {} THEN totals
    ELSE LET session == CHOOSE x \in rows : TRUE
             duration == calculateSessionDuration(session, t) IN
         FoldProjectTotals(rows \ {session},
            [TotalHours |-> totals.TotalHours + duration,
             TotalSalaryCost |->
                 totals.TotalSalaryCost
                   + (IF session.HourlyRate = Nil THEN 0
                      ELSE duration * Val(session.HourlyRate))], t)

\* GetProjectSessions / FindWhere "project_id = ?"
SessionsOfProject(projectID) == {x \in sessions : x.ProjectID = projectID}

\* the last created_at of the loop of GetProjectCostReport
RECURSIVE LastActivityOf(_, _)
LastActivityOf(rows, last) ==
    IF rows = {} THEN last
    ELSE LET session == CHOOSE x \in rows : TRUE IN
         LastActivityOf(rows \ {session}, LaterOf(last, session))

\* the report that divides by the number of sessions without looking at it
ProjectTimeReportUnguarded(projectID) ==
    [ProjectID |-> projectID,
     TotalHours |-> projectTotals[projectID].TotalHours,
     TotalCost |-> projectTotals[projectID].TotalSalaryCost,
     WorkSessions |-> Cardinality(SessionsOfProject(projectID)),
     AverageSession |-> Quotient(projectTotals[projectID].TotalHours,
                                 Cardinality(SessionsOfProject(projectID))),
     LastActivity |-> LastActivityOf(SessionsOfProject(projectID), Nil),
     ActiveWorkers |-> 0]

\* the report of GetProjectCostReport for a stored project
ProjectTimeReport(projectID) ==
    LET found == SessionsOfProject(projectID)
        report == [ProjectID |-> projectID,
                   TotalHours |-> projectTotals[projectID].TotalHours,
                   TotalCost |-> projectTotals[projectID].TotalSalaryCost,
                   WorkSessions |-> Cardinality(found),
                   AverageSession |-> ZeroFloat,
                   LastActivity |-> Nil,
                   ActiveWorkers |-> 0] IN
    IF Cardinality(found) > 0
    THEN [report EXCEPT
            !.AverageSession = Quotient(projectTotals[projectID].TotalHours,
                                        Cardinality(found)),
            !.LastActivity = LastActivityOf(found, Nil)]
    ELSE report

\* ------------------------------------------------------------- processes
Idle ==
    [pc |-> "idle", op |-> "none", userID |-> "none", projectID |-> 0,
     companyID |-> "none", hourlyRate |-> Nil, breakType |-> "none",
     sessionID |-> 0, active |-> Nil, session |-> Nil, breakRecord |-> Nil,
     currentSession |-> Nil, err |-> NoErr, ret |-> Nil, resp |-> "none"]

\* a process can take a new request when it serves none
Free(p) == proc[p].pc \in {"idle", "done"}

Init ==
    /\ sessions = {}
    /\ breaks = {}
    /\ activeSessions = {}
    /\ projects = StoredProjects
    /\ projectTotals = NoTotals
    /\ assignments = StoredAssignments
    /\ nextSessionID = 1
    /\ nextBreakID = 1
    /\ now = 0
    /\ faults = 0
    /\ budget = MaxRequests
    /\ proc = [p \in Procs |-> Idle]

\* ---------------------------------------------------------------- handlers
\* what the HTTP handler answers for the error the service returned
StartWorkSessionResponse(err) ==
    IF err = NoErr THEN "Created"
    ELSE IF err = <<ErrAlreadyActive>> THEN "Conflict"
    ELSE "InternalError"

FinishWorkSessionResponse(err) ==
    IF err = NoErr THEN "Success" ELSE "InternalError"

TakeBreakResponse(err) ==
    IF err = NoErr THEN "Created"
    ELSE IF err = <<ErrAlreadyOnBreak>> THEN "Conflict"
    ELSE IF err = <<ErrInvalidBreakType>> THEN "BadRequest"
    ELSE "InternalError"

EndBreakResponse(err) ==
    IF err = NoErr THEN "Success"
    ELSE IF err = <<ErrNotOnBreak>> THEN "BadRequest"
    ELSE "InternalError"

SwitchProjectResponse(err) ==
    IF err = NoErr THEN "Success" ELSE "InternalError"

SwitchCompanyResponse(err) ==
    IF err = NoErr THEN "Success" ELSE "InternalError"

\* GET /sessions/active: an error is answered as "no active session" only
\* when errors.Is finds gorm.ErrRecordNotFound in its chain
GetActiveSessionResponse(err) ==
    IF err = NoErr THEN "SuccessActive"
    ELSE IF \E i \in DOMAIN err : err[i] = ErrRecordNotFound
    THEN "SuccessNotActive"
    ELSE "InternalError"

\* the report handlers answer every error of the service with InternalError,
\* and so does the handler of UpdateProjectAssignment: the text it compares
\* with to answer Forbidden is not the text the service returns
ReportResponse(err) ==
    IF err = NoErr THEN "Success" ELSE "InternalError"

\* DELETE /projects/id/:id answers every error with InternalError
DeleteProfessionalProjectResponse(err) ==
    IF err = NoErr THEN "Success" ELSE "InternalError"

Response(op, err) ==
    CASE op = "StartWorkSession" -> StartWorkSessionResponse(err)
      [] op = "FinishWorkSession" -> FinishWorkSessionResponse(err)
      [] op = "TakeBreak" -> TakeBreakResponse(err)
      [] op = "EndBreak" -> EndBreakResponse(err)
      [] op = "SwitchProject" -> SwitchProjectResponse(err)
      [] op = "SwitchCompany" -> SwitchCompanyResponse(err)
      [] op = "GetActiveSession" -> GetActiveSessionResponse(err)
      [] op = "HasActiveSession" -> "none"
      [] op = "GenerateUserTimeReport" -> ReportResponse(err)
      [] op = "GetProjectCostReport" -> ReportResponse(err)
      [] op = "CalculateProjectTotals" -> "none"
      [] op = "GetUserTimeReport" -> "none"
      [] op = "UpdateProjectAssignment" -> ReportResponse(err)
      [] op = "DeleteProfessionalProject" ->
            DeleteProfessionalProjectResponse(err)

\* the request a handler passes to the service
Request(op, userID, projectID, companyID, hourlyRate, breakType) ==
    [Idle EXCEPT !.op = op, !.userID = userID, !.projectID = projectID,
                 !.companyID = companyID, !.hourlyRate = hourlyRate,
                 !.breakType = breakType]

\* the handler has the service's result and answers
Done(pr, val, e) ==
    [Idle EXCEPT !.pc = "done", !.op = pr.op, !.userID = pr.userID,
                 !.err = e, !.ret = IF e = NoErr THEN val ELSE Nil,
                 !.resp = Response(pr.op, e)]

\* ------------------------------------------------------- returns to callers
\* StartWorkSession returns to the handler or to SwitchProject/SwitchCompany
RetStart(pr, val, e) ==
    IF pr.op = "StartWorkSession" THEN Done(pr, val, e)
    ELSE IF e = NoErr THEN Done(pr, val, NoErr)
    ELSE Done(pr, Nil, <<ErrStartNew>> \o e)

\* FinishWorkSession returns to the handler, or to SwitchProject (which
\* starts with the closed session's rate) or SwitchCompany (which drops the
\* session returned; currentSession then only records that the finish
\* returned one)
RetFinish(pr, val, e) ==
    IF pr.op = "FinishWorkSession" THEN Done(pr, val, e)
    ELSE IF e # NoErr THEN Done(pr, Nil, <<ErrFinishCurrent>> \o e)
    ELSE [pr EXCEPT !.pc = "start_check",
                    !.currentSession = val,
                    !.hourlyRate = IF pr.op = "SwitchProject"
                                   THEN Val(val).HourlyRate
                                   ELSE pr.hourlyRate,
                    !.sessionID = 0, !.active = Nil, !.session = Nil,
                    !.breakRecord = Nil]

\* EndBreak returns to the handler or to FinishWorkSession
RetEndBreak(pr, val, e) ==
    IF pr.op = "EndBreak" THEN Done(pr, val, e)
    ELSE IF e # NoErr THEN RetFinish(pr, Nil, <<ErrEndActiveBreak>> \o e)
    ELSE [pr EXCEPT !.pc = "finish_find", !.active = Nil,
                    !.breakRecord = Nil]

\* --------------------------------------------------------- first store reads
\* the start with the HasActiveSession check left out
StartCheckSkipped(pr) == [pr EXCEPT !.pc = "start_project"]

\* StartWorkSession: the HasActiveSession check
StartCheck(pr) ==
    IF HasActiveSession(pr.userID)
    THEN RetStart(pr, Nil, <<ErrAlreadyActive>>)
    ELSE [pr EXCEPT !.pc = "start_project"]

\* GetActiveSession: sessions[0] of the user's rows, or an error
GetActiveSession(userID) ==
    IF ActiveRowsOf(activeSessions, userID) = {} THEN Nil
    ELSE Some(CHOOSE a \in ActiveRowsOf(activeSessions, userID) : TRUE)

\* FinishWorkSession: read the pointer, end an open break first
FinishGet(pr) ==
    LET got == GetActiveSession(pr.userID) IN
    IF got = Nil
    THEN RetFinish(pr, Nil, <<ErrNoActive, ErrNoActiveForUser>>)
    ELSE IF Val(got).IsOnBreak /\ Val(got).CurrentBreakID # Nil
    THEN [pr EXCEPT !.sessionID = Val(got).SessionID, !.pc = "endbreak_get"]
    ELSE [pr EXCEPT !.sessionID = Val(got).SessionID, !.pc = "finish_find"]

\* the end of a break that answers success when no break is open
EndBreakGetNoBreakCheck(pr) ==
    LET got == GetActiveSession(pr.userID) IN
    IF got = Nil
    THEN RetEndBreak(pr, Nil, <<ErrNoActive, ErrNoActiveForUser>>)
    ELSE IF ~Val(got).IsOnBreak \/ Val(got).CurrentBreakID = Nil
    THEN RetEndBreak(pr, Nil, NoErr)
    ELSE [pr EXCEPT !.active = got, !.pc = "endbreak_find"]

\* EndBreak: read the pointer, require an open break
EndBreakGet(pr) ==
    LET got == GetActiveSession(pr.userID) IN
    IF got = Nil
    THEN RetEndBreak(pr, Nil, <<ErrNoActive, ErrNoActiveForUser>>)
    ELSE IF ~Val(got).IsOnBreak \/ Val(got).CurrentBreakID = Nil
    THEN RetEndBreak(pr, Nil, <<ErrNotOnBreak>>)
    ELSE [pr EXCEPT !.active = got, !.pc = "endbreak_find"]

\* the break taken without looking at the on-break flag
TakeBreakGetNoBreakCheck(pr) ==
    LET got == GetActiveSession(pr.userID) IN
    IF got = Nil
    THEN Done(pr, Nil, <<ErrNoActive, ErrNoActiveForUser>>)
    ELSE IF ~isValidBreakType(pr.breakType)
    THEN Done(pr, Nil, <<ErrInvalidBreakType>>)
    ELSE [pr EXCEPT !.active = got, !.pc = "takebreak_create"]

\* TakeBreak: read the pointer, refuse a second break and an unknown kind
TakeBreakGet(pr) ==
    LET got == GetActiveSession(pr.userID) IN
    IF got = Nil
    THEN Done(pr, Nil, <<ErrNoActive, ErrNoActiveForUser>>)
    ELSE IF Val(got).IsOnBreak
    THEN Done(pr, Nil, <<ErrAlreadyOnBreak>>)
    ELSE IF ~isValidBreakType(pr.breakType)
    THEN Done(pr, Nil, <<ErrInvalidBreakType>>)
    ELSE [pr EXCEPT !.active = got, !.pc = "takebreak_create"]

\* the switch that does not take the company of the pointer
SwitchProjectGetNoCompany(pr) ==
    IF GetActiveSession(pr.userID) = Nil
    THEN Done(pr, Nil, <<ErrNoActive, ErrNoActiveForUser>>)
    ELSE [pr EXCEPT !.pc = "finish_get"]

\* SwitchProject: read the pointer for its company, then finish
SwitchProjectGet(pr) ==
    LET got == GetActiveSession(pr.userID) IN
    IF got = Nil
    THEN Done(pr, Nil, <<ErrNoActive, ErrNoActiveForUser>>)
    ELSE [pr EXCEPT !.companyID = Val(got).CompanyID, !.pc = "finish_get"]

\* the switch that never finishes the current session
SwitchCompanyNoFinish(pr) == [pr EXCEPT !.pc = "start_check"]

\* SwitchCompany: finish only when a pointer exists, then start
SwitchCompanyCheck(pr) ==
    IF HasActiveSession(pr.userID)
    THEN [pr EXCEPT !.pc = "finish_get"]
    ELSE [pr EXCEPT !.pc = "start_check"]

\* the close that looks the rate up in the worker's assignment to the
\* project at the time of the close
CloseSessionAtLiveRate(session, t) ==
    LET live == {a \in assignments :
                    /\ a.ParentProjectID = session.ProjectID
                    /\ a.WorkerUserID = session.UserID}
        rated == IF live = {} THEN session
                 ELSE [session EXCEPT
                         !.HourlyRate =
                            Some((CHOOSE a \in live : TRUE).CostPerHour)]
        ended == [rated EXCEPT !.EndTime = Some(t), !.IsActive = FALSE] IN
    [ended EXCEPT !.DurationMinutes = calculateSessionDuration(ended, t),
                  !.SessionCost = calculateSessionCost(ended, t)]

\* the close with the active flag left set
CloseSessionStillActive(session, t) ==
    LET ended == [session EXCEPT !.EndTime = Some(t)] IN
    [ended EXCEPT !.DurationMinutes = calculateSessionDuration(ended, t),
                  !.SessionCost = calculateSessionCost(ended, t)]

\* the session as FinishWorkSession closes it before the update
CloseSession(session, t) ==
    LET ended == [session EXCEPT !.EndTime = Some(t), !.IsActive = FALSE] IN
    [ended EXCEPT !.DurationMinutes = calculateSessionDuration(ended, t),
                  !.SessionCost = calculateSessionCost(ended, t)]

\* the close that leaves the duration as it was
CloseBreakNoDuration(breakRecord, t) ==
    [breakRecord EXCEPT !.EndTime = Some(t), !.IsActive = FALSE]

\* the break as EndBreak closes it before the update
CloseBreak(breakRecord, t) ==
    LET ended == [breakRecord EXCEPT !.EndTime = Some(t), !.IsActive = FALSE] IN
    [ended EXCEPT !.DurationMinutes = calculateBreakDuration(ended, t)]

\* a store write fails
Fault == faults < MaxFaults /\ faults' = faults + 1

\* ------------------------------------------------------------------ actions
Set(p, pr) == proc' = [proc EXCEPT ![p] = pr]

\* a request arrives; the handler calls the service, which does its first read
StartWorkSession(p, projectID, companyID, userID, hourlyRate) ==
    /\ Free(p)
    /\ budget > 0
    /\ budget' = budget - 1
    /\ Set(p, StartCheck(Request("StartWorkSession", userID, projectID,
                                 companyID, hourlyRate, "none")))
    /\ UNCHANGED <<store, nextSessionID, nextBreakID, now, faults>>

FinishWorkSession(p, userID) ==
    /\ Free(p)
    /\ budget > 0
    /\ budget' = budget - 1
    /\ Set(p, FinishGet(Request("FinishWorkSession", userID, 0, "none",
                                Nil, "none")))
    /\ UNCHANGED <<store, nextSessionID, nextBreakID, now, faults>>

TakeBreak(p, userID, breakType) ==
    /\ Free(p)
    /\ budget > 0
    /\ budget' = budget - 1
    /\ Set(p, TakeBreakGet(Request("TakeBreak", userID, 0, "none", Nil,
                                   breakType)))
    /\ UNCHANGED <<store, nextSessionID, nextBreakID, now, faults>>

EndBreak(p, userID) ==
    /\ Free(p)
    /\ budget > 0
    /\ budget' = budget - 1
    /\ Set(p, EndBreakGet(Request("EndBreak", userID, 0, "none", Nil,
                                  "none")))
    /\ UNCHANGED <<store, nextSessionID, nextBreakID, now, faults>>

SwitchProject(p, userID, newProjectID) ==
    /\ Free(p)
    /\ budget > 0
    /\ budget' = budget - 1
    /\ Set(p, SwitchProjectGet(Request("SwitchProject", userID, newProjectID,
                                       "none", Nil, "none")))
    /\ UNCHANGED <<store, nextSessionID, nextBreakID, now, faults>>

SwitchCompany(p, userID, newCompanyID, newProjectID, hourlyRate) ==
    /\ Free(p)
    /\ budget > 0
    /\ budget' = budget - 1
    /\ Set(p, SwitchCompanyCheck(Request("SwitchCompany", userID,
                                         newProjectID, newCompanyID,
                                         hourlyRate, "none")))
    /\ UNCHANGED <<store, nextSessionID, nextBreakID, now, faults>>

\* the read that also stamps the pointer it returns with the time of the read
GetActiveSessionTouching(p, userID) ==
    /\ Free(p)
    /\ budget > 0
    /\ budget' = budget - 1
    /\ LET got == GetActiveSession(userID) IN
       /\ Set(p, Done(Request("GetActiveSession", userID, 0, "none", Nil,
                              "none"),
                      got,
                      IF got = Nil THEN <<ErrNoActiveForUser>> ELSE NoErr))
       /\ activeSessions' =
             IF got = Nil THEN activeSessions
             ELSE UpdateActive(activeSessions,
                               [Val(got) EXCEPT !.LastActivityAt = now])
    /\ UNCHANGED <<sessions, breaks, projects, projectTotals, assignments,
                   nextSessionID, nextBreakID, now, faults>>

\* GET /sessions/active: the handler calls GetActiveSession and answers
GetActiveSessionHandler(p, userID) ==
    /\ Free(p)
    /\ budget > 0
    /\ budget' = budget - 1
    /\ LET got == GetActiveSession(userID) IN
       Set(p, Done(Request("GetActiveSession", userID, 0, "none", Nil, "none"),
                   got,
                   IF got = Nil THEN <<ErrNoActiveForUser>> ELSE NoErr))
    /\ UNCHANGED <<store, nextSessionID, nextBreakID, now, faults>>

\* a call of the service's HasActiveSession: the boolean and a nil error
HasActiveSessionCall(p, userID) ==
    /\ Free(p)
    /\ budget > 0
    /\ budget' = budget - 1
    /\ Set(p, Done(Request("HasActiveSession", userID, 0, "none", Nil, "none"),
                   Some(HasActiveSession(userID)), NoErr))
    /\ UNCHANGED <<store, nextSessionID, nextBreakID, now, faults>>

\* GET /sessions/report: a report may be asked for at any time
GenerateUserTimeReport(p, userID, projectID, startDate, endDate) ==
    /\ Free(p)
    /\ Set(p, Done(Request("GenerateUserTimeReport", userID, projectID,
                           "none", Nil, "none"),
                   Some(UserTimeReport(userID, projectID, startDate, endDate,
                                       now)),
                   NoErr))
    /\ UNCHANGED <<store, nextSessionID, nextBreakID, now, faults, budget>>

\* a call of the project service's GetUserTimeReport
GetUserTimeReport(p, userID, startDate, endDate) ==
    /\ Free(p)
    /\ Set(p, Done(Request("GetUserTimeReport", userID, 0, "none", Nil,
                           "none"),
                   Some(GetUserTimeReportCtx(userID, startDate, endDate, now)),
                   NoErr))
    /\ UNCHANGED <<store, nextSessionID, nextBreakID, now, faults, budget>>

\* GET /projects/id/:id/report
GetProjectCostReport(p, projectID, userID) ==
    /\ Free(p)
    /\ Set(p, IF projectID \in projects
              THEN Done(Request("GetProjectCostReport", userID, projectID,
                                "none", Nil, "none"),
                        Some(ProjectTimeReport(projectID)), NoErr)
              ELSE Done(Request("GetProjectCostReport", userID, projectID,
                                "none", Nil, "none"),
                        Nil,
                        <<ErrProfessionalProjectNotFound, ErrRecordNotFound>>))
    /\ UNCHANGED <<store, nextSessionID, nextBreakID, now, faults, budget>>

\* a call of the service's CalculateProjectTotals: the sums over the work
\* sessions of the project are written to the project's row
CalculateProjectTotals(p, projectID) ==
    /\ Free(p)
    /\ LET pr == Request("CalculateProjectTotals", "none", projectID, "none",
                         Nil, "none")
           found == {x \in SessionsOfProject(projectID) :
                        x.SessionType = SessionTypeWork} IN
       IF projectID \notin projects
       THEN /\ Set(p, Done(pr, Nil, <<ErrRecordNotFound>>))
            /\ UNCHANGED <<projectTotals, faults>>
       ELSE \/ /\ projectTotals' =
                     [projectTotals EXCEPT
                        ![projectID] = FoldProjectTotals(found,
                            [TotalHours |-> 0, TotalSalaryCost |-> 0], now)]
               /\ Set(p, Done(pr, Nil, NoErr))
               /\ UNCHANGED faults
            \/ /\ Fault
               /\ Set(p, Done(pr, Nil, <<ErrStore>>))
               /\ UNCHANGED projectTotals
    /\ UNCHANGED <<sessions, breaks, activeSessions, projects, assignments,
                   nextSessionID, nextBreakID, now, budget>>

\* PUT /projects/id/:id/freelance/:freelanceId: the worker changes the rate
\* and the active flag of an assignment; a cost of 0 keeps the rate
UpdateProjectAssignment(p, id, costPerHour, isActive, userID) ==
    /\ Free(p)
    /\ LET pr == Request("UpdateProjectAssignment", userID, 0, "none", Nil,
                         "none")
           found == {a \in assignments : a.ID = id} IN
       IF found = {}
       THEN /\ Set(p, Done(pr, Nil,
                           <<ErrAssignmentNotFound, ErrRecordNotFound>>))
            /\ UNCHANGED <<assignments, faults>>
       ELSE LET projectAssignment == CHOOSE a \in found : TRUE
                updated ==
                    [projectAssignment EXCEPT
                        !.CostPerHour = IF costPerHour > 0 THEN costPerHour
                                        ELSE @,
                        !.IsActive = isActive] IN
            IF projectAssignment.WorkerUserID # userID
            THEN /\ Set(p, Done(pr, Nil, <<ErrAccessDenied>>))
                 /\ UNCHANGED <<assignments, faults>>
            ELSE \/ /\ assignments' =
                          (assignments \ {projectAssignment}) \cup {updated}
                    /\ Set(p, Done(pr, Some(updated), NoErr))
                    /\ UNCHANGED faults
                 \/ /\ Fault
                    /\ Set(p, Done(pr, Nil,
                                   <<ErrUpdateAssignment, ErrStore>>))
                    /\ UNCHANGED assignments
    /\ UNCHANGED <<sessions, breaks, activeSessions, projects, projectTotals,
                   nextSessionID, nextBreakID, now, budget>>

\* DELETE /projects/id/:id: the request arrives and the service does its
\* first read, projectRepo.FindByID; the userID is logged and not compared
DeleteProfessionalProject(p, id, userID) ==
    /\ Free(p)
    /\ budget > 0
    /\ budget' = budget - 1
    /\ LET pr == Request("DeleteProfessionalProject", userID, id, "none", Nil,
                         "none") IN
       Set(p, IF id \in projects
              THEN [pr EXCEPT !.pc = "delete_check"]
              ELSE Done(pr, Nil,
                        <<ErrProfessionalProjectNotFound, ErrRecordNotFound>>))
    /\ UNCHANGED <<store, nextSessionID, nextBreakID, now, faults>>

\* DeleteProfessionalProject: sessionRepo.FindWhere for the sessions of the
\* project with is_active true; any such session refuses the delete
DeleteCheckActiveSessions(p) ==
    /\ proc[p].pc = "delete_check"
    /\ LET activeSessionsOfProject ==
               {x \in sessions : x.ProjectID = proc[p].projectID
                                    /\ x.IsActive} IN
       Set(p, IF activeSessionsOfProject # {}
              THEN Done(proc[p], Nil, <<ErrProjectHasActiveSessions>>)
              ELSE [proc[p] EXCEPT !.pc = "delete_project"])
    /\ UNCHANGED <<store, nextSessionID, nextBreakID, now, faults, budget>>

\* DeleteProfessionalProject: projectRepo.Delete; the row goes with its
\* total columns, which nothing reads once the ID is gone
DeleteProject(p) ==
    /\ proc[p].pc = "delete_project"
    /\ \/ /\ projects' = projects \ {proc[p].projectID}
          /\ Set(p, Done(proc[p], Nil, NoErr))
          /\ UNCHANGED faults
       \/ /\ Fault
          /\ Set(p, Done(proc[p], Nil, <<ErrDeleteProject, ErrStore>>))
          /\ UNCHANGED projects
    /\ UNCHANGED <<sessions, breaks, activeSessions, projectTotals,
                   assignments, nextSessionID, nextBreakID, now, budget>>

\* StartWorkSession called by a switch: the HasActiveSession check
StartCheckActive(p) ==
    /\ proc[p].pc = "start_check"
    /\ Set(p, StartCheck(proc[p]))
    /\ UNCHANGED <<store, nextSessionID, nextBreakID, now, faults, budget>>

\* the start that does not look the project up
StartFindProjectUnchecked(p) ==
    /\ proc[p].pc = "start_project"
    /\ Set(p, [proc[p] EXCEPT !.pc = "start_create"])
    /\ UNCHANGED <<store, nextSessionID, nextBreakID, now, faults, budget>>

\* StartWorkSession: projectRepo.FindByID
StartFindProject(p) ==
    /\ proc[p].pc = "start_project"
    /\ Set(p, IF proc[p].projectID \in projects
              THEN [proc[p] EXCEPT !.pc = "start_create"]
              ELSE RetStart(proc[p], Nil,
                            <<ErrProjectNotFound, ErrRecordNotFound>>))
    /\ UNCHANGED <<store, nextSessionID, nextBreakID, now, faults, budget>>

\* StartWorkSession: sessionRepo.Create
StartCreateSession(p) ==
    /\ proc[p].pc = "start_create"
    /\ \/ /\ nextSessionID <= MaxSessions
          /\ LET session == NewTimeSession(nextSessionID, proc[p].projectID,
                                           proc[p].userID, proc[p].companyID,
                                           proc[p].hourlyRate, now) IN
             /\ sessions' = sessions \cup {session}
             /\ Set(p, [proc[p] EXCEPT !.session = Some(session),
                                       !.pc = "start_pointer"])
          /\ nextSessionID' = nextSessionID + 1
          /\ UNCHANGED faults
       \/ /\ Fault
          /\ Set(p, RetStart(proc[p], Nil, <<ErrCreateSession, ErrStore>>))
          /\ UNCHANGED <<sessions, nextSessionID>>
    /\ UNCHANGED <<breaks, activeSessions, projects, projectTotals,
                   assignments, nextBreakID, now, budget>>

\* the insert of the pointer that is reported as failed after the row was
\* written
StartCreatePointerLostAck(p) ==
    /\ proc[p].pc = "start_pointer"
    /\ LET activeSession == NewUserActiveSession(Val(proc[p].session)) IN
       \/ /\ ActiveInsertAllowed(activeSessions, activeSession.UserID)
          /\ activeSessions' = activeSessions \cup {activeSession}
          /\ Set(p, [proc[p] EXCEPT !.pc = "start_rollback"])
          /\ UNCHANGED faults
       \/ /\ ~ActiveInsertAllowed(activeSessions, activeSession.UserID)
          /\ Set(p, [proc[p] EXCEPT !.pc = "start_rollback"])
          /\ UNCHANGED <<activeSessions, faults>>
       \/ /\ Fault
          /\ Set(p, [proc[p] EXCEPT !.pc = "start_rollback"])
          /\ UNCHANGED activeSessions
    /\ UNCHANGED <<sessions, breaks, projects, projectTotals,
                   assignments, nextSessionID, nextBreakID, now, budget>>

\* StartWorkSession: activeSessionRepo.Create
StartCreatePointer(p) ==
    /\ proc[p].pc = "start_pointer"
    /\ LET activeSession == NewUserActiveSession(Val(proc[p].session)) IN
       \/ /\ ActiveInsertAllowed(activeSessions, activeSession.UserID)
          /\ activeSessions' = activeSessions \cup {activeSession}
          /\ Set(p, RetStart(proc[p], proc[p].session, NoErr))
          /\ UNCHANGED faults
       \/ /\ ~ActiveInsertAllowed(activeSessions, activeSession.UserID)
          /\ Set(p, [proc[p] EXCEPT !.pc = "start_rollback"])
          /\ UNCHANGED <<activeSessions, faults>>
       \/ /\ Fault
          /\ Set(p, [proc[p] EXCEPT !.pc = "start_rollback"])
          /\ UNCHANGED activeSessions
    /\ UNCHANGED <<sessions, breaks, projects, projectTotals,
                   assignments, nextSessionID, nextBreakID, now, budget>>

\* StartWorkSession: the rollback, sessionRepo.Delete, its error dropped
StartRollback(p) ==
    /\ proc[p].pc = "start_rollback"
    /\ \/ /\ sessions' = DeleteByID(sessions, Val(proc[p].session).ID)
          /\ UNCHANGED faults
       \/ /\ Fault
          /\ UNCHANGED sessions
    /\ Set(p, RetStart(proc[p], Nil, <<ErrCreateActive, ErrStore>>))
    /\ UNCHANGED <<breaks, activeSessions, projects, projectTotals,
                   assignments, nextSessionID,
                   nextBreakID, now, budget>>

\* FinishWorkSession called by a switch: GetActiveSession
FinishGetActive(p) ==
    /\ proc[p].pc = "finish_get"
    /\ Set(p, FinishGet(proc[p]))
    /\ UNCHANGED <<store, nextSessionID, nextBreakID, now, faults, budget>>

\* FinishWorkSession: sessionRepo.FindByID, then the session is closed
\* in memory
FinishFindSession(p) ==
    /\ proc[p].pc = "finish_find"
    /\ LET found == RowsByID(sessions, proc[p].sessionID) IN
       Set(p, IF found = {}
              THEN RetFinish(proc[p], Nil,
                             <<ErrSessionNotFound, ErrRecordNotFound>>)
              ELSE [proc[p] EXCEPT
                      !.session = Some(CloseSession(CHOOSE r \in found : TRUE,
                                                    now)),
                      !.pc = "finish_update"])
    /\ UNCHANGED <<store, nextSessionID, nextBreakID, now, faults, budget>>

\* FinishWorkSession: sessionRepo.Update
FinishUpdateSession(p) ==
    /\ proc[p].pc = "finish_update"
    /\ \/ /\ sessions' = UpdateByID(sessions, Val(proc[p].session))
          /\ Set(p, [proc[p] EXCEPT !.pc = "finish_delete"])
          /\ UNCHANGED faults
       \/ /\ Fault
          /\ Set(p, RetFinish(proc[p], Nil, <<ErrUpdateSession, ErrStore>>))
          /\ UNCHANGED sessions
    /\ UNCHANGED <<breaks, activeSessions, projects, projectTotals,
                   assignments, nextSessionID,
                   nextBreakID, now, budget>>

\* FinishWorkSession: activeSessionRepo.Delete
FinishDeletePointer(p) ==
    /\ proc[p].pc = "finish_delete"
    /\ \/ /\ activeSessions' = DeleteActive(activeSessions, proc[p].userID)
          /\ Set(p, RetFinish(proc[p], proc[p].session, NoErr))
          /\ UNCHANGED faults
       \/ /\ Fault
          /\ Set(p, RetFinish(proc[p], Nil, <<ErrRemoveActive, ErrStore>>))
          /\ UNCHANGED activeSessions
    /\ UNCHANGED <<sessions, breaks, projects, projectTotals,
                   assignments, nextSessionID, nextBreakID, now, budget>>

\* TakeBreak: breakRepo.Create
TakeBreakCreate(p) ==
    /\ proc[p].pc = "takebreak_create"
    /\ \/ /\ nextBreakID <= MaxBreaks
          /\ LET breakRecord == NewSessionBreak(nextBreakID,
                                   Val(proc[p].active).SessionID,
                                   proc[p].breakType, now) IN
             /\ breaks' = breaks \cup {breakRecord}
             /\ Set(p, [proc[p] EXCEPT !.breakRecord = Some(breakRecord),
                                       !.pc = "takebreak_pointer"])
          /\ nextBreakID' = nextBreakID + 1
          /\ UNCHANGED faults
       \/ /\ Fault
          /\ Set(p, Done(proc[p], Nil, <<ErrCreateBreak, ErrStore>>))
          /\ UNCHANGED <<breaks, nextBreakID>>
    /\ UNCHANGED <<sessions, activeSessions, projects, projectTotals,
                   assignments, nextSessionID, now, budget>>

\* TakeBreak: activeSessionRepo.Update
TakeBreakUpdatePointer(p) ==
    /\ proc[p].pc = "takebreak_pointer"
    /\ \/ /\ activeSessions' = UpdateActive(activeSessions,
                [Val(proc[p].active) EXCEPT
                    !.IsOnBreak = TRUE,
                    !.CurrentBreakID = Some(Val(proc[p].breakRecord).ID),
                    !.LastActivityAt = now])
          /\ Set(p, Done(proc[p], proc[p].breakRecord, NoErr))
          /\ UNCHANGED faults
       \/ /\ Fault
          /\ Set(p, Done(proc[p], Nil, <<ErrUpdateActive, ErrStore>>))
          /\ UNCHANGED activeSessions
    /\ UNCHANGED <<sessions, breaks, projects, projectTotals,
                   assignments, nextSessionID, nextBreakID, now, budget>>

\* EndBreak called by FinishWorkSession: GetActiveSession
EndBreakGetActive(p) ==
    /\ proc[p].pc = "endbreak_get"
    /\ Set(p, EndBreakGet(proc[p]))
    /\ UNCHANGED <<store, nextSessionID, nextBreakID, now, faults, budget>>

\* EndBreak: breakRepo.FindByID, then the break is closed in memory
EndBreakFind(p) ==
    /\ proc[p].pc = "endbreak_find"
    /\ LET found == RowsByID(breaks, Val(Val(proc[p].active).CurrentBreakID)) IN
       Set(p, IF found = {}
              THEN RetEndBreak(proc[p], Nil,
                               <<ErrBreakNotFound, ErrRecordNotFound>>)
              ELSE [proc[p] EXCEPT
                      !.breakRecord = Some(CloseBreak(CHOOSE r \in found : TRUE,
                                                      now)),
                      !.pc = "endbreak_update"])
    /\ UNCHANGED <<store, nextSessionID, nextBreakID, now, faults, budget>>

\* EndBreak: breakRepo.Update
EndBreakUpdateBreak(p) ==
    /\ proc[p].pc = "endbreak_update"
    /\ \/ /\ breaks' = UpdateByID(breaks, Val(proc[p].breakRecord))
          /\ Set(p, [proc[p] EXCEPT !.pc = "endbreak_pointer"])
          /\ UNCHANGED faults
       \/ /\ Fault
          /\ Set(p, RetEndBreak(proc[p], Nil, <<ErrUpdateBreak, ErrStore>>))
          /\ UNCHANGED breaks
    /\ UNCHANGED <<sessions, activeSessions, projects, projectTotals,
                   assignments, nextSessionID,
                   nextBreakID, now, budget>>

\* EndBreak: activeSessionRepo.Update
EndBreakUpdatePointer(p) ==
    /\ proc[p].pc = "endbreak_pointer"
    /\ \/ /\ activeSessions' = UpdateActive(activeSessions,
                [Val(proc[p].active) EXCEPT
                    !.IsOnBreak = FALSE,
                    !.CurrentBreakID = Nil,
                    !.LastActivityAt = now])
          /\ Set(p, RetEndBreak(proc[p], proc[p].breakRecord, NoErr))
          /\ UNCHANGED faults
       \/ /\ Fault
          /\ Set(p, RetEndBreak(proc[p], Nil, <<ErrUpdateActive, ErrStore>>))
          /\ UNCHANGED activeSessions
    /\ UNCHANGED <<sessions, breaks, projects, projectTotals,
                   assignments, nextSessionID, nextBreakID, now, budget>>

\* the clock step that closes the sessions still open
TickClosingSessions ==
    /\ now < MaxTime
    /\ now' = now + 1
    /\ sessions' = {IF x.EndTime = Nil THEN CloseSession(x, now + 1) ELSE x :
                       x \in sessions}
    /\ UNCHANGED <<breaks, activeSessions, projects, projectTotals,
                   assignments, nextSessionID, nextBreakID, faults, budget,
                   proc>>

\* time passes
Tick ==
    /\ now < MaxTime
    /\ now' = now + 1
    /\ UNCHANGED <<store, nextSessionID, nextBreakID, faults, budget, proc>>

\* one step of a request, for requests of the processes PS that name users
\* of US, projects of PIDS, companies of CS, rates of RS and break kinds of BTS
Calls(PS, US, PIDS, CS, RS, BTS) ==
    \/ \E p \in PS, u \in US, pid \in PIDS, c \in CS, r \in RS :
          StartWorkSession(p, pid, c, u, r)
    \/ \E p \in PS, u \in US : FinishWorkSession(p, u)
    \/ \E p \in PS, u \in US, bt \in BTS : TakeBreak(p, u, bt)
    \/ \E p \in PS, u \in US : EndBreak(p, u)
    \/ \E p \in PS, u \in US, pid \in PIDS : SwitchProject(p, u, pid)
    \/ \E p \in PS, u \in US, c \in CS, pid \in PIDS, r \in RS :
          SwitchCompany(p, u, c, pid, r)
    \/ \E p \in PS : StartCheckActive(p)
    \/ \E p \in PS : StartFindProject(p)
    \/ \E p \in PS : StartCreateSession(p)
    \/ \E p \in PS : StartCreatePointer(p)
    \/ \E p \in PS : StartRollback(p)
    \/ \E p \in PS : FinishGetActive(p)
    \/ \E p \in PS : FinishFindSession(p)
    \/ \E p \in PS : FinishUpdateSession(p)
    \/ \E p \in PS : FinishDeletePointer(p)
    \/ \E p \in PS : TakeBreakCreate(p)
    \/ \E p \in PS : TakeBreakUpdatePointer(p)
    \/ \E p \in PS : EndBreakGetActive(p)
    \/ \E p \in PS : EndBreakFind(p)
    \/ \E p \in PS : EndBreakUpdateBreak(p)
    \/ \E p \in PS : EndBreakUpdatePointer(p)

\* one step of the system: a step of a request, or a minute passes
Step(PS, US, PIDS, CS, RS, BTS) ==
    \/ Calls(PS, US, PIDS, CS, RS, BTS)
    \/ Tick

\* the calls that only read, for the processes PS and the users US
Reads(PS, US) ==
    \/ \E p \in PS, u \in US : GetActiveSessionHandler(p, u)
    \/ \E p \in PS, u \in US : HasActiveSessionCall(p, u)

\* the windows a report may be asked for, from midnight to midnight: an
\* instant, a day, two days, and a window that ends before it starts
Windows ==
    {<<0, 0>>, <<0, DayMinutes>>, <<0, 2 * DayMinutes>>, <<DayMinutes, 0>>}

\* the reports, for the processes PS, the users US and the projects PIDS;
\* 0 is the report's "no project filter"
Reports(PS, US, PIDS) ==
    \/ \E p \in PS, u \in US, pid \in PIDS \cup {0}, w \in Windows :
          GenerateUserTimeReport(p, u, pid, w[1], w[2])
    \/ \E p \in PS, u \in US, pid \in PIDS : GetProjectCostReport(p, pid, u)

\* the clock of the long runs: the instants at which a request may arrive
Instants == {0, 15, 90, 105}

\* time passes between two requests, a quarter of an hour or an hour and a
\* half at once
Elapse(d) ==
    /\ now + d \in Instants
    /\ now' = now + d
    /\ UNCHANGED <<store, nextSessionID, nextBreakID, faults, budget, proc>>

\* concurrent requests of one user; the project asked for may be missing
\* from the store and the break kind may be one the service refuses
Next ==
    Step(Procs, {"u1"}, ProjectIDs, {"A"}, {Some(50)}, {BreakTypeLunch, "nap"})

Spec == Init /\ [][Next]_vars

\* one request at a time: every request returns before the next arrives.
\* The run begins with an empty store, or with the store as a successful
\* start of u1 on project 1 for company A at rate 50 leaves it.
SeqStarted == NewTimeSession(1, 1, "u1", "A", Some(50), 0)

SeqInit ==
    /\ \/ /\ sessions = {}
          /\ activeSessions = {}
          /\ nextSessionID = 1
       \/ /\ sessions = {SeqStarted}
          /\ activeSessions = {NewUserActiveSession(SeqStarted)}
          /\ nextSessionID = 2
    /\ breaks = {}
    /\ projects = StoredProjects
    /\ projectTotals = NoTotals
    /\ assignments = StoredAssignments
    /\ nextBreakID = 1
    /\ now = 0
    /\ faults = 0
    /\ budget = MaxRequests
    /\ proc = [p \in Procs |-> Idle]

\* sequential requests and reads that name either company, a stored or a
\* missing project, and a rate or none
SeqNext ==
    \/ Step({1}, {"u1"}, ProjectIDs, Companies, Rates, {BreakTypeLunch, "nap"})
    \/ Reads({1}, {"u1"})

SeqSpec == SeqInit /\ [][SeqNext]_vars

\* sequential requests that name any break kind
BreakNext ==
    Step({1}, {"u1"}, StoredProjects, {"A"}, {Some(50)}, BreakTypeInputs)

BreakSpec == SeqInit /\ [][BreakNext]_vars

\* the rows a report is computed from: a work session of two hours with no
\* rate, a break-kind row of a quarter of an hour, a work session of an hour
\* and a half at rate 50, a session of another user, and an open session
ReportRows ==
    {CloseSession(NewTimeSession(1, 1, "u1", "A", Nil, 0), 120),
     [CloseSession(NewTimeSession(2, 1, "u1", "A", Nil, 120), 135)
         EXCEPT !.SessionType = SessionTypeBreak],
     CloseSession(NewTimeSession(3, 1, "u1", "B", Some(50), 200), 290),
     CloseSession(NewTimeSession(4, 1, "u2", "A", Some(50), 0), 60),
     NewTimeSession(5, 1, "u1", "A", Some(50), 300)}

\* the clock when the reports are asked for
ReportClock == 330

\* any of the rows may be stored when a report is asked for
ReportInit ==
    /\ sessions \in SUBSET ReportRows
    /\ activeSessions =
          {NewUserActiveSession(x) : x \in {y \in sessions : y.EndTime = Nil}}
    /\ breaks = {}
    /\ projects = StoredProjects
    /\ projectTotals = NoTotals
    /\ assignments = StoredAssignments
    /\ nextSessionID = 6
    /\ nextBreakID = 1
    /\ now = ReportClock
    /\ faults = 0
    /\ budget = 0
    /\ proc = [p \in Procs |-> Idle]

\* the reports of either user, over each window, for a stored project, a
\* missing one or none, and the calculation of the totals
ReportNext ==
    \/ Reports({1}, Users, ProjectIDs)
    \/ \E u \in Users, a \in {Nil, Some(0)}, b \in {Nil, Some(DayMinutes)} :
          GetUserTimeReport(1, u, a, b)
    \/ \E pid \in ProjectIDs : CalculateProjectTotals(1, pid)

ReportSpec == ReportInit /\ [][ReportNext]_vars

\* sequential requests of one user, with or without a rate, with reads and
\* reports between them, on the long clock
ServiceNext ==
    \/ Calls({1}, {"u1"}, StoredProjects, {"A"}, Rates, {BreakTypeLunch})
    \/ Reads({1}, {"u1"})
    \/ GenerateUserTimeReport(1, "u1", 0, 0, DayMinutes)
    \/ GetProjectCostReport(1, 1, "u1")
    \/ \E d \in {15, 90} : Elapse(d)

ServiceSpec == SeqInit /\ [][ServiceNext]_vars

\* sequential requests of one user while the worker changes the rate of the
\* assignment to the project
RateNext ==
    \/ Step({1}, {"u1"}, StoredProjects, {"A"}, {Some(50)}, {BreakTypeLunch})
    \/ \E c \in {0, 80}, u \in Users :
          UpdateProjectAssignment(1, 1, c, TRUE, u)
    \/ UpdateProjectAssignment(1, 2, 80, TRUE, "u1")

RateSpec == SeqInit /\ [][RateNext]_vars

\* requests of two users served side by side, process 1 for u1 and process
\* 2 for u2, their store calls interleaved
IsolationNext ==
    \/ Calls({1}, {"u1"}, StoredProjects, {"A"}, {Some(50)}, {BreakTypeLunch})
    \/ Calls({2}, {"u2"}, StoredProjects, {"A"}, {Some(50)}, {BreakTypeLunch})
    \/ Tick

IsolationSpec == SeqInit /\ [][IsolationNext]_vars

\* the steps of the delete of a project, for the processes PS, the users US
\* and the project IDs PIDS
Deletes(PS, US, PIDS) ==
    \/ \E p \in PS, u \in US, pid \in PIDS :
          DeleteProfessionalProject(p, pid, u)
    \/ \E p \in PS : DeleteCheckActiveSessions(p)
    \/ \E p \in PS : DeleteProject(p)

\* requests of a worker on the stored project, interleaved with requests of
\* another user to delete a project
DeleteNext ==
    \/ Calls({1}, {"u1"}, StoredProjects, {"A"}, {Some(50)}, {BreakTypeLunch})
    \/ Deletes({2}, {"u2"}, ProjectIDs)
    \/ Tick

DeleteSpec == SeqInit /\ [][DeleteNext]_vars

\* ------------------------------------------------------------------- claims
Other(p) == CHOOSE q \in Procs : q # p
PointersTo(rows, sessionID) == {a \in rows : a.SessionID = sessionID}
OpenSessionsOf(userID) ==
    {x \in sessions : x.UserID = userID /\ x.EndTime = Nil}
OpenBreaksOf(sessionID) ==
    {b \in breaks : b.SessionID = sessionID /\ b.EndTime = Nil}
\* process p receives a request of kind op in this step
Begins(p, op) ==
    /\ budget' < budget
    /\ proc'[p] # proc[p]
    /\ proc'[p].op = op
\* process p returns to its handler in this step, from the store call at pc
Returns(p, pcs) ==
    /\ proc[p].pc \in pcs
    /\ proc'[p].pc = "done"

\* C1: in every reachable state, also between the store calls of
\* interleaved starts and switches of one user, user_active_sessions holds
\* at most one row per user.
C1_AtMostOnePointerPerUser ==
    \A u \in Users : Cardinality(ActiveRowsOf(activeSessions, u)) <= 1

\* a switch of the user lost the race for the pointer: its insert was
\* refused by the primary key while another request's pointer is stored
C1_Witness ==
    \E p \in Procs :
        /\ proc[p].op \in {"SwitchProject", "SwitchCompany"}
        /\ proc[p].pc = "start_rollback"
        /\ faults = 0
        /\ HasActiveSession(proc[p].userID)
        /\ PointersTo(activeSessions, Val(proc[p].session).ID) = {}

\* C2: a StartWorkSession that finds a pointer of its user, on break or
\* not, returns the already-active error, which the handler answers with
\* Conflict, and writes nothing: sessions, breaks and pointers are unchanged.
C2_StartWithPointerConflicts ==
    [][\A p \in Procs :
          /\ (Begins(p, "StartWorkSession")
                /\ HasActiveSession(proc'[p].userID))
             => /\ proc'[p].pc = "done"
                /\ proc'[p].err = <<ErrAlreadyActive>>
                /\ proc'[p].resp = "Conflict"
                /\ proc'[p].ret = Nil
                /\ UNCHANGED <<sessions, breaks, activeSessions>>
          /\ (proc[p].pc = "start_check" /\ proc'[p] # proc[p]
                /\ HasActiveSession(proc[p].userID))
             => /\ proc'[p].pc = "done"
                /\ proc'[p].err = <<ErrStartNew, ErrAlreadyActive>>
                /\ UNCHANGED <<sessions, breaks, activeSessions>>
      ]_vars

\* the last request was a start answered Conflict while the user is on break
C2_Witness ==
    /\ proc[1].op = "StartWorkSession"
    /\ proc[1].resp = "Conflict"
    /\ proc[2].pc = "idle"
    /\ budget = 0
    /\ \E a \in activeSessions : a.UserID = proc[1].userID /\ a.IsOnBreak
    /\ Cardinality(sessions) = 1

\* C3: when the only two requests of a run are starts of one user and no
\* store write failed, then once both have returned exactly one of them
\* returned a session, the other was answered Conflict, and the user has
\* exactly one open session.
C3_RacingStartsConflict ==
    (/\ \A p \in Procs : proc[p].pc = "done" /\ proc[p].op = "StartWorkSession"
     /\ proc[1].userID = proc[2].userID
     /\ budget = MaxRequests - 2
     /\ faults = 0)
    => /\ \E p \in Procs :
            /\ proc[p].ret # Nil
            /\ proc[Other(p)].ret = Nil
            /\ proc[Other(p)].resp = "Conflict"
       /\ Cardinality(OpenSessionsOf(proc[1].userID)) = 1

\* C4: in every reachable state a session is open exactly when some
\* pointer references it.
C4_OpenIffPointed ==
    \A x \in sessions :
        (x.EndTime = Nil) <=> (PointersTo(activeSessions, x.ID) # {})

\* C5: when StartWorkSession returns after it created a session, the
\* session and a pointer to it are both stored or neither is.
C5_StartLeavesBothOrNeither ==
    [][\A p \in Procs :
          Returns(p, {"start_pointer", "start_rollback"})
          => LET id == Val(proc[p].session).ID IN
             (RowsByID(sessions', id) # {})
                <=> (PointersTo(activeSessions', id) # {})
      ]_vars

\* C6: every stored session has end_time nil exactly when its active flag
\* is set.
C6_EndTimeNilIffActive ==
    \A x \in sessions : (x.EndTime = Nil) <=> x.IsActive

\* a closed and an open session are stored
C6_Witness ==
    /\ \E x \in sessions : x.EndTime # Nil
    /\ \E x \in sessions : x.EndTime = Nil

\* C7: in every reachable state every break of a closed session is closed.
C7_NoOpenBreakInClosedSession ==
    \A b \in breaks :
        \A x \in RowsByID(sessions, b.SessionID) :
            x.EndTime # Nil => b.EndTime # Nil

\* C8: in every reachable state a session has at most one open break.
C8_AtMostOneOpenBreak ==
    \A x \in sessions : Cardinality(OpenBreaksOf(x.ID)) <= 1

\* C9: a FinishWorkSession of a user without a pointer is answered
\* NotFound and writes nothing.
C9_FinishWithoutPointerNotFound ==
    [][\A p \in Procs :
          (Begins(p, "FinishWorkSession")
             /\ ~HasActiveSession(proc'[p].userID))
          => /\ proc'[p].pc = "done"
             /\ proc'[p].err # NoErr
             /\ proc'[p].resp = "NotFound"
             /\ UNCHANGED <<sessions, breaks, activeSessions>>
      ]_vars

\* C10: FinishWorkSession closes the session in memory with end_time = now
\* and active = false; when it returns with success it returns that
\* session, which is the one the pointer it read referenced, and the user
\* has no pointer, so that a StartWorkSession of the user passes its check.
C10_FinishReturnsClosedSession ==
    [][\A p \in Procs :
          /\ (proc[p].pc = "finish_find" /\ proc'[p].pc = "finish_update")
             => /\ Val(proc'[p].session).ID = proc[p].sessionID
                /\ Val(proc'[p].session).EndTime = Some(now)
                /\ Val(proc'[p].session).IsActive = FALSE
          /\ (proc[p].op = "FinishWorkSession"
                /\ Returns(p, {"finish_delete"}) /\ proc'[p].err = NoErr)
             => /\ proc'[p].ret = proc[p].session
                /\ proc'[p].resp = "Success"
                /\ ActiveRowsOf(activeSessions', proc[p].userID) = {}
                /\ \A pid \in ProjectIDs, c \in Companies, r \in Rates :
                      StartCheck(Request("StartWorkSession", proc[p].userID,
                                         pid, c, r, "none"))'.pc
                         = "start_project"
      ]_vars

\* a finish returned session 1 and a later start returned session 2
C10_Witness ==
    /\ proc[1].op = "FinishWorkSession" /\ proc[1].resp = "Success"
    /\ Val(proc[1].ret).ID = 1
    /\ proc[2].op = "StartWorkSession" /\ proc[2].resp = "Created"
    /\ Val(proc[2].ret).ID = 2
    /\ PointersTo(activeSessions, 2) # {}

\* process p answers a request of kind op in this step
Answers(p, op) ==
    /\ proc'[p] # proc[p]
    /\ proc'[p].pc = "done"
    /\ proc'[p].op = op

\* C11: a SwitchProject that runs alone, has finished the current session
\* and then fails in its start step returns an error; the user is left
\* with no pointer and the session it closed stays stored as closed, with
\* its end_time, duration and cost.
C11_FailedSwitchKeepsClosedSession ==
    [][\A p \in Procs :
          (Answers(p, "SwitchProject") /\ proc[p].currentSession # Nil
             /\ proc'[p].err # NoErr)
          => LET closed == Val(proc[p].currentSession) IN
             /\ proc'[p].ret = Nil
             /\ proc'[p].resp # "Success"
             /\ ~HasActiveSession(proc[p].userID)'
             /\ closed \in sessions'
             /\ closed.EndTime # Nil
             /\ ~closed.IsActive
             /\ closed.DurationMinutes = Val(closed.EndTime) - closed.StartTime
             /\ closed.SessionCost = calculateSessionCost(closed, now)
      ]_vars

\* a switch to the missing project failed after it closed a session that
\* lasted a minute and cost a minute of the rate
C11_Witness ==
    /\ proc[1].op = "SwitchProject"
    /\ proc[1].err = <<ErrStartNew, ErrProjectNotFound, ErrRecordNotFound>>
    /\ activeSessions = {}
    /\ \E x \in sessions :
          /\ x.EndTime = Some(1)
          /\ x.DurationMinutes = 1
          /\ x.SessionCost = 50

\* C12: a SwitchProject or SwitchCompany that fails returns the
\* start-failed variant of its error exactly when it has closed a session,
\* so that the variant tells the caller a session was closed.
C12_SwitchFailureTellsCommit ==
    [][\A p \in Procs :
          ((Answers(p, "SwitchProject") \/ Answers(p, "SwitchCompany"))
             /\ proc'[p].err # NoErr)
          => ((proc[p].currentSession # Nil)
                <=> (Head(proc'[p].err) = ErrStartNew))
      ]_vars

\* C13: a SwitchProject reads the company of the user's pointer; when it
\* succeeds, the session the pointer referenced is stored closed and the
\* session returned is a new open work session of the user on the project
\* asked for, with that company and with the rate of the closed session
\* (nil when it had none), and the user's pointer references it.
C13_SwitchProjectCarriesCompanyAndRate ==
    [][\A p \in Procs :
          /\ (Begins(p, "SwitchProject") /\ HasActiveSession(proc'[p].userID))
             => /\ proc'[p].pc = "finish_get"
                /\ \A a \in ActiveRowsOf(activeSessions, proc'[p].userID) :
                      proc'[p].companyID = a.CompanyID
          /\ (proc[p].op = "SwitchProject" /\ proc[p].pc = "finish_get"
                /\ proc'[p].pc = "finish_find")
             => \A a \in ActiveRowsOf(activeSessions, proc[p].userID) :
                   proc'[p].sessionID = a.SessionID
          /\ (Answers(p, "SwitchProject") /\ proc'[p].err = NoErr)
             => LET closed == Val(proc[p].currentSession)
                    new == Val(proc'[p].ret) IN
                /\ closed \in sessions'
                /\ closed.EndTime # Nil
                /\ closed.UserID = proc[p].userID
                /\ new \in sessions'
                /\ new.ID # closed.ID
                /\ new.EndTime = Nil
                /\ new.SessionType = SessionTypeWork
                /\ new.UserID = proc[p].userID
                /\ new.ProjectID = proc[p].projectID
                /\ new.CompanyID = proc[p].companyID
                /\ new.CompanyID = closed.CompanyID
                /\ new.HourlyRate = closed.HourlyRate
                /\ ActiveRowsOf(activeSessions', proc[p].userID)
                     = {NewUserActiveSession(new)}
      ]_vars

\* a switch closed a session of company B with no rate and returned an
\* open session of company B with no rate
C13_Witness ==
    /\ proc[1].op = "SwitchProject"
    /\ proc[1].resp = "Success"
    /\ Val(proc[1].ret).CompanyID = "B"
    /\ Val(proc[1].ret).HourlyRate = Nil
    /\ Val(proc[1].ret).EndTime = Nil
    /\ \E x \in sessions :
          x.EndTime # Nil /\ x.CompanyID = "B" /\ x.HourlyRate = Nil

\* C14: a SwitchCompany of a user with a pointer finishes the current
\* session first and one of a user without a pointer goes straight to the
\* start; when it succeeds the session returned is a new open work session
\* with the company, project and rate asked for, the user's only pointer
\* references it, and the session it finished, if any, is stored closed.
C14_SwitchCompanyOpensNewSession ==
    [][\A p \in Procs :
          /\ Begins(p, "SwitchCompany")
             => proc'[p].pc = IF HasActiveSession(proc'[p].userID)
                              THEN "finish_get" ELSE "start_check"
          /\ (Answers(p, "SwitchCompany") /\ proc'[p].err = NoErr)
             => LET new == Val(proc'[p].ret) IN
                /\ new \in sessions'
                /\ new.EndTime = Nil
                /\ new.SessionType = SessionTypeWork
                /\ new.UserID = proc[p].userID
                /\ new.CompanyID = proc[p].companyID
                /\ new.ProjectID = proc[p].projectID
                /\ new.HourlyRate = proc[p].hourlyRate
                /\ ActiveRowsOf(activeSessions', proc[p].userID)
                     = {NewUserActiveSession(new)}
                /\ proc[p].currentSession # Nil
                   => LET closed == Val(proc[p].currentSession) IN
                      /\ closed \in sessions'
                      /\ closed.EndTime # Nil
                      /\ closed.ID # new.ID
      ]_vars

\* a switch closed a session of company A after a minute and returned an
\* open session of company B with no rate
C14_Witness ==
    /\ proc[1].op = "SwitchCompany"
    /\ proc[1].resp = "Success"
    /\ Val(proc[1].ret).CompanyID = "B"
    /\ Val(proc[1].ret).HourlyRate = Nil
    /\ PointersTo(activeSessions, Val(proc[1].ret).ID) # {}
    /\ \E x \in sessions :
          x.CompanyID = "A" /\ x.EndTime # Nil /\ x.DurationMinutes = 1

\* C15: a TakeBreak of a user whose pointer is on break, whatever kind it
\* names, returns the already-on-break error, which the handler answers
\* with Conflict, and writes nothing: breaks and pointers are unchanged.
C15_TakeBreakOnBreakConflicts ==
    [][\A p \in Procs :
          (Begins(p, "TakeBreak")
             /\ \E a \in ActiveRowsOf(activeSessions, proc'[p].userID) :
                   a.IsOnBreak)
          => /\ proc'[p].pc = "done"
             /\ proc'[p].err = <<ErrAlreadyOnBreak>>
             /\ proc'[p].resp = "Conflict"
             /\ proc'[p].ret = Nil
             /\ UNCHANGED <<sessions, breaks, activeSessions, nextBreakID>>
      ]_vars

\* the last of three requests was a second TakeBreak answered Conflict,
\* and the one break of the first is still the open break of the pointer
C15_Witness ==
    /\ proc[1].op = "TakeBreak"
    /\ proc[1].resp = "Conflict"
    /\ proc[2].pc = "idle"
    /\ budget = 0
    /\ Cardinality(breaks) = 1
    /\ \E a \in activeSessions, b \in breaks :
          a.IsOnBreak /\ a.CurrentBreakID = Some(b.ID) /\ b.EndTime = Nil

C17_TakeBreakOpensBreakUnderSession ==
    [][\A p \in Procs :
          /\ (proc[p].pc = "takebreak_create"
                /\ proc'[p].pc = "takebreak_pointer")
             => LET new == Val(proc'[p].breakRecord) IN
                /\ new \notin breaks
                /\ breaks' = breaks \cup {new}
                /\ new.EndTime = Nil
                /\ new.IsActive
                /\ new.BreakType = proc[p].breakType
                /\ \A a \in ActiveRowsOf(activeSessions, proc[p].userID) :
                      new.SessionID = a.SessionID
                /\ UNCHANGED <<sessions, activeSessions>>
          /\ (proc[p].op = "TakeBreak" \/ proc'[p].op = "TakeBreak")
             => UNCHANGED sessions
          /\ (Answers(p, "TakeBreak") /\ proc'[p].err = NoErr)
             => LET new == Val(proc'[p].ret) IN
                /\ proc'[p].ret = proc[p].breakRecord
                /\ new \in breaks'
                /\ \E a \in ActiveRowsOf(activeSessions, proc[p].userID) :
                      /\ ~a.IsOnBreak
                      /\ ActiveRowsOf(activeSessions', proc[p].userID)
                           = {[a EXCEPT !.IsOnBreak = TRUE,
                                        !.CurrentBreakID = Some(new.ID),
                                        !.LastActivityAt = now]}
                      /\ new \in OpenBreaksOf(a.SessionID)'
                      /\ \E x \in sessions' : x.ID = a.SessionID
                /\ UNCHANGED <<sessions, breaks>>
      ]_vars

\* a brb break taken a minute after the start is the open break of the
\* pointer of the open session, next to an earlier break that was ended
C17_Witness ==
    /\ proc[1].op = "TakeBreak"
    /\ proc[1].resp = "Created"
    /\ Val(proc[1].ret).BreakType = BreakTypeBRB
    /\ Val(proc[1].ret).StartTime = 1
    /\ Cardinality(breaks) = 2
    /\ \E a \in activeSessions, x \in sessions :
          /\ a.IsOnBreak
          /\ a.CurrentBreakID = Some(Val(proc[1].ret).ID)
          /\ x.ID = a.SessionID
          /\ x.EndTime = Nil

\* C18: an EndBreak of a user whose pointer shows no open break returns
\* the not-on-break error, which the handler answers as a refused request
\* (BadRequest) and not as a failure of the server, and writes nothing:
\* sessions, breaks and pointers are unchanged.
C18_EndBreakWithoutBreakRefused ==
    [][\A p \in Procs :
          (Begins(p, "EndBreak")
             /\ \E a \in ActiveRowsOf(activeSessions, proc'[p].userID) :
                   ~a.IsOnBreak \/ a.CurrentBreakID = Nil)
          => /\ proc'[p].pc = "done"
             /\ proc'[p].err = <<ErrNotOnBreak>>
             /\ proc'[p].resp = "BadRequest"
             /\ proc'[p].ret = Nil
             /\ UNCHANGED <<sessions, breaks, activeSessions>>
      ]_vars

\* an EndBreak was refused while the user's session is open and no break
\* was ever taken
C18_Witness ==
    /\ proc[1].op = "EndBreak"
    /\ proc[1].resp = "BadRequest"
    /\ proc[2].pc = "idle"
    /\ breaks = {}
    /\ \E a \in activeSessions, x \in sessions :
          /\ ~a.IsOnBreak
          /\ a.CurrentBreakID = Nil
          /\ x.ID = a.SessionID
          /\ x.EndTime = Nil

\* C19: an EndBreak that runs alone closes in memory the break the pointer
\* names, with end_time = now, active = false and duration the whole
\* minutes from its start to its end, and its update changes that row of
\* session_breaks and no other; when it returns with success it returns
\* the closed break, the pointer is the pointer it read with on_break and
\* the break reference cleared and the last activity renewed, no session
\* row has changed, and a TakeBreak of the user with a valid kind passes
\* its checks again.
C19_EndBreakClosesPointedBreak ==
    [][\A p \in Procs :
          /\ (proc[p].op = "EndBreak" /\ proc[p].pc = "endbreak_find"
                /\ proc'[p].pc = "endbreak_update")
             => LET closed == Val(proc'[p].breakRecord) IN
                /\ Some(closed.ID) = Val(proc[p].active).CurrentBreakID
                /\ closed.EndTime = Some(now)
                /\ ~closed.IsActive
                /\ closed.DurationMinutes = now - closed.StartTime
                /\ \E b \in breaks :
                      /\ b.ID = closed.ID
                      /\ b.StartTime = closed.StartTime
                      /\ b.SessionID = closed.SessionID
                      /\ b.BreakType = closed.BreakType
          /\ (proc[p].op = "EndBreak" /\ proc[p].pc = "endbreak_update"
                /\ proc'[p].pc = "endbreak_pointer")
             => LET closed == Val(proc[p].breakRecord) IN
                /\ closed \in breaks'
                /\ {b \in breaks' : b.ID # closed.ID}
                     = {b \in breaks : b.ID # closed.ID}
                /\ Cardinality(breaks') = Cardinality(breaks)
          /\ (proc[p].op = "EndBreak" \/ proc'[p].op = "EndBreak")
             => UNCHANGED sessions
          /\ (Answers(p, "EndBreak") /\ proc'[p].err = NoErr)
             => /\ proc'[p].ret = proc[p].breakRecord
                /\ Val(proc'[p].ret) \in breaks'
                /\ proc'[p].resp = "Success"
                /\ ActiveRowsOf(activeSessions', proc[p].userID)
                     = {[Val(proc[p].active) EXCEPT
                            !.IsOnBreak = FALSE,
                            !.CurrentBreakID = Nil,
                            !.LastActivityAt = now]}
                /\ Val(proc[p].active) \in activeSessions
                /\ \A bt \in {BreakTypeShort, BreakTypeLunch, BreakTypeBRB} :
                      TakeBreakGet(Request("TakeBreak", proc[p].userID, 0,
                                           "none", Nil, bt))'.pc
                         = "takebreak_create"
      ]_vars

\* a break was ended after a minute and a second break was taken after it
C19_Witness ==
    /\ proc[1].op = "TakeBreak"
    /\ proc[1].resp = "Created"
    /\ Val(proc[1].ret).ID = 2
    /\ \E b \in breaks :
          b.ID = 1 /\ b.EndTime = Some(1) /\ b.DurationMinutes = 1
                   /\ ~b.IsActive
    /\ \E a \in activeSessions, x \in sessions :
          /\ a.CurrentBreakID = Some(2)
          /\ x.ID = a.SessionID
          /\ x.EndTime = Nil
    /\ faults = 0

\* C20: with no pointer of the user stored, HasActiveSession returns false
\* and no error while GetActiveSession returns an error and no pointer;
\* with a pointer stored, HasActiveSession returns true and
\* GetActiveSession returns that pointer, both without error; neither
\* writes a row.
C20_HasActiveNeverFailsGetActiveDoes ==
    [][\A p \in Procs :
          /\ Answers(p, "HasActiveSession")
             => /\ proc'[p].err = NoErr
                /\ proc'[p].ret
                     = Some(ActiveRowsOf(activeSessions, proc'[p].userID) # {})
                /\ UNCHANGED store
          /\ Answers(p, "GetActiveSession")
             => /\ IF ActiveRowsOf(activeSessions, proc'[p].userID) = {}
                   THEN /\ proc'[p].err = <<ErrNoActiveForUser>>
                        /\ proc'[p].ret = Nil
                   ELSE /\ proc'[p].err = NoErr
                        /\ Val(proc'[p].ret)
                             \in ActiveRowsOf(activeSessions, proc'[p].userID)
                /\ UNCHANGED store
      ]_vars

\* after a finish the user has a closed session and no pointer, and
\* HasActiveSession returned false with no error
C20_Witness ==
    /\ proc[1].op = "HasActiveSession"
    /\ proc[1].ret = Some(FALSE)
    /\ proc[1].err = NoErr
    /\ activeSessions = {}
    /\ \E x \in sessions : x.EndTime # Nil

\* the operations that only read
ReadOps ==
    {"HasActiveSession", "GetActiveSession", "GenerateUserTimeReport",
     "GetProjectCostReport"}
\* process p answers a read of kind op in this step
Reading(p, op) ==
    /\ proc'[p].pc = "done"
    /\ proc'[p].op = op
    /\ budget' < budget \/ proc'[p] # proc[p]

\* C21: HasActiveSession, GetActiveSession, GenerateUserTimeReport and
\* GetProjectCostReport leave every stored row of every table unchanged, and
\* a HasActiveSession that follows a HasActiveSession for the same user with
\* no request between them returns the same result.
C21_ReadsLeaveStoreUnchanged ==
    [][/\ \A op \in ReadOps :
            Reading(1, op) =>
                /\ UNCHANGED store
                /\ UNCHANGED <<nextSessionID, nextBreakID>>
       /\ \A u \in Users :
            (/\ proc[1].pc = "done"
             /\ proc[1].op = "HasActiveSession"
             /\ proc[1].userID = u
             /\ HasActiveSessionCall(1, u))
                => proc'[1].ret = proc[1].ret]_vars

\* HasActiveSession has answered true after an earlier read, with the rows
\* of the started session still stored
C21_Witness ==
    /\ proc[1].pc = "done"
    /\ proc[1].op = "HasActiveSession"
    /\ proc[1].ret = Some(TRUE)
    /\ budget <= MaxRequests - 2
    /\ sessions = {SeqStarted}
    /\ activeSessions = {NewUserActiveSession(SeqStarted)}
    /\ now > 0

\* the sessions that have an end_time
ClosedSessions == {x \in sessions : x.EndTime # Nil}

\* C22: every closed session stores the cost (duration_minutes / 60) times
\* the rate stored on that same session, and the cost 0 when it stores no
\* rate; a closed session of 90 minutes at rate 50 stores the cost 75, and
\* a session without a rate that is finished in the minute it was started
\* stores the cost 0. SessionCost counts sixtieths of a currency unit.
C22_ClosedCostIsDurationTimesOwnRate ==
    \A x \in ClosedSessions :
        /\ x.HourlyRate = Nil => x.SessionCost = 0
        /\ x.HourlyRate # Nil =>
              x.SessionCost = x.DurationMinutes * Val(x.HourlyRate)
        /\ (x.DurationMinutes = 90 /\ x.HourlyRate = Some(50)) =>
              x.SessionCost = 75 * MinutesPerHour
        /\ (x.HourlyRate = Nil /\ Val(x.EndTime) = x.StartTime) =>
              (x.DurationMinutes = 0 /\ x.SessionCost = 0)

\* a session of 90 minutes at rate 50 and a session without a rate finished
\* at once are both stored closed
C22_Witness ==
    /\ \E x \in ClosedSessions :
          /\ x.HourlyRate = Some(50)
          /\ x.DurationMinutes = 90
          /\ x.SessionCost = 4500
    /\ \E x \in ClosedSessions :
          /\ x.HourlyRate = Nil
          /\ Val(x.EndTime) = x.StartTime
          /\ x.SessionCost = 0

\* the breaks stored under a session
BreaksOf(sessionID) == {b \in breaks : b.SessionID = sessionID}

\* C23: in every reachable state the stored duration of every closed session
\* is the whole minutes from its own start_time to its own end_time, however
\* many breaks were taken or force-closed inside it, and its cost is computed
\* from that whole span.
C23_ClosedDurationIsWholeSpan ==
    \A x \in ClosedSessions :
        /\ x.DurationMinutes = Val(x.EndTime) - x.StartTime
        /\ x.HourlyRate # Nil =>
              x.SessionCost
                = (Val(x.EndTime) - x.StartTime) * Val(x.HourlyRate)

\* a closed session of 105 minutes holds a break of 15 minutes that the
\* finish force-closed, and a closed session holds a break the user ended
C23_Witness ==
    /\ \E x \in ClosedSessions :
          /\ x.DurationMinutes = 105
          /\ \E b \in BreaksOf(x.ID) :
                /\ b.EndTime = x.EndTime
                /\ b.DurationMinutes = 15
    /\ proc[1].op = "FinishWorkSession"
    /\ proc[1].err = NoErr

\* a closed session of 105 minutes holds a break of 15 minutes that EndBreak
\* closed before the finish
C23_WitnessEndedBreak ==
    \E x \in ClosedSessions :
        /\ x.DurationMinutes = 105
        /\ \E b \in BreaksOf(x.ID) :
              /\ b.EndTime # Nil
              /\ b.EndTime # x.EndTime
              /\ b.DurationMinutes = 15

\* C24: the hourly rate a session was created with is never changed by a
\* later step of any operation, a change of the assignment's cost_per_hour
\* included, and no session row is touched by UpdateProjectAssignment; the
\* cost of every closed session is its duration times that stored rate.
C24_RateSnapshotNeverChanges ==
    [][/\ \A x \in sessions : \A y \in sessions' :
            y.ID = x.ID => y.HourlyRate = x.HourlyRate
       /\ Answers(1, "UpdateProjectAssignment") => UNCHANGED sessions
       /\ \A y \in sessions' :
            (y.EndTime # Nil /\ y.HourlyRate # Nil) =>
                y.SessionCost
                  = (Val(y.EndTime) - y.StartTime) * Val(y.HourlyRate)]_vars

\* a session started at rate 50 is finished after the assignment's rate was
\* changed to 80, and its cost for one minute is 50 sixtieths
C24_Witness ==
    /\ proc[1].pc = "done"
    /\ proc[1].op = "FinishWorkSession"
    /\ proc[1].err = NoErr
    /\ \E a \in assignments : a.CostPerHour = 80
    /\ \E x \in ClosedSessions :
          /\ x.ID = Val(proc[1].ret).ID
          /\ x.HourlyRate = Some(50)
          /\ x.DurationMinutes = 1
          /\ x.SessionCost = 50

\* the rows of user u among the pointers ps, the sessions ss and the breaks bs
RowsOfUser(ps, ss, bs, u) ==
    <<ActiveRowsOf(ps, u),
      {x \in ss : x.UserID = u},
      {b \in bs : \E x \in ss : x.ID = b.SessionID /\ x.UserID = u}>>
\* the error of an operation that finds no pointer
ErrNoPointer == <<ErrNoActive, ErrNoActiveForUser>>

\* C25: every step of a start, finish, TakeBreak, EndBreak, SwitchProject or
\* SwitchCompany for user u, failed or not, leaves the pointer, the sessions
\* and the breaks of every other user unchanged; what the operation decides
\* on arrival is fixed by u's own pointer alone, and the row it returns is a
\* row of u.
C25_OtherUsersUntouched ==
    [][\A p \in Procs :
         proc'[p] # proc[p] =>
           LET u == proc'[p].userID
               own == ActiveRowsOf(activeSessions, u)
               onBreak == \E a \in own : a.IsOnBreak
               op == proc'[p].op
               done == proc'[p].pc = "done" IN
           /\ \A v \in Users \ {u} :
                RowsOfUser(activeSessions', sessions', breaks', v)
                  = RowsOfUser(activeSessions, sessions, breaks, v)
           /\ Begins(p, "StartWorkSession") =>
                (own # {} <=> (done /\ proc'[p].err = <<ErrAlreadyActive>>))
           /\ Begins(p, "FinishWorkSession") =>
                (own = {} <=> (done /\ proc'[p].err = ErrNoPointer))
           /\ Begins(p, "TakeBreak") =>
                /\ own = {} <=> (done /\ proc'[p].err = ErrNoPointer)
                /\ onBreak <=> (done /\ proc'[p].err = <<ErrAlreadyOnBreak>>)
           /\ Begins(p, "EndBreak") =>
                /\ own = {} <=> (done /\ proc'[p].err = ErrNoPointer)
                /\ (own # {} /\ ~onBreak)
                     <=> (done /\ proc'[p].err = <<ErrNotOnBreak>>)
           /\ Begins(p, "SwitchProject") =>
                (own = {} <=> (done /\ proc'[p].err = ErrNoPointer))
           /\ Begins(p, "SwitchCompany") =>
                (own = {} <=> proc'[p].pc = "start_check")
           /\ (done /\ proc'[p].ret # Nil) =>
                IF op \in {"TakeBreak", "EndBreak"}
                THEN \E x \in sessions' :
                        /\ x.ID = Val(proc'[p].ret).SessionID
                        /\ x.UserID = u
                ELSE Val(proc'[p].ret).UserID = u]_vars

\* u2, with a session of its own, is refused an EndBreak as not on break
\* while u1 is on a break
C25_Witness ==
    /\ proc[2].pc = "done"
    /\ proc[2].op = "EndBreak"
    /\ proc[2].userID = "u2"
    /\ proc[2].err = <<ErrNotOnBreak>>
    /\ \E a \in ActiveRowsOf(activeSessions, "u1") : a.IsOnBreak
    /\ \E a \in ActiveRowsOf(activeSessions, "u2") : ~a.IsOnBreak

\* the sessions a user report for user u, project filter pid and window
\* [a, b] is about
SelectedFor(u, pid, a, b) ==
    {x \in sessions : /\ x.UserID = u
                      /\ x.StartTime >= a
                      /\ x.StartTime <= b
                      /\ pid > 0 => x.ProjectID = pid}
WorkRows(rows) == {x \in rows : x.SessionType = SessionTypeWork}

C26_CtxVariantCountsWorkRows ==
    [][\A u \in Users :
         GetUserTimeReport(1, u, Some(0), Some(DayMinutes)) =>
            Val(proc'[1].ret).WorkSessions
              = Cardinality(WorkRows(SelectedFor(u, 0, 0, DayMinutes)))]_vars

\* the minutes of the sessions of rows, summed over the session IDs from 1
\* to n; an open session counts up to the clock
RECURSIVE MinutesOf(_, _)
MinutesOf(rows, n) ==
    IF n = 0 THEN 0
    ELSE MinutesOf(rows, n - 1)
         + (IF \E x \in rows : x.ID = n
            THEN LET x == CHOOSE y \in rows : y.ID = n IN
                 IF x.EndTime = Nil THEN now - x.StartTime
                 ELSE Val(x.EndTime) - x.StartTime
            ELSE 0)

\* C27: in the user report, total_hours is the sum of the durations of the
\* work-kind sessions selected, break_minutes the sum of the durations of
\* the selected sessions of another kind, and productive_hours is
\* total_hours - break_minutes / 60; a work session of 120 minutes and a
\* break session of 15 minutes give 2.0, 15 and 1.75. TotalHours and
\* ProductiveHours count sixtieths of an hour, so that a break minute is
\* one unit of either.
C27_ReportSumsByKind ==
    [][\A u \in Users, pid \in ProjectIDs \cup {0}, w \in Windows :
         GenerateUserTimeReport(1, u, pid, w[1], w[2]) =>
            LET selected == SelectedFor(u, pid, w[1], w[2])
                report == Val(proc'[1].ret) IN
            /\ report.TotalHours
                 = MinutesOf(WorkRows(selected), Cardinality(ReportRows))
            /\ report.BreakMinutes
                 = MinutesOf(selected \ WorkRows(selected),
                             Cardinality(ReportRows))
            /\ report.ProductiveHours
                 = report.TotalHours - report.BreakMinutes
            /\ {x.ID : x \in selected} = {1, 2} =>
                 /\ report.TotalHours = 2 * MinutesPerHour
                 /\ report.BreakMinutes = 15
                 /\ 4 * report.ProductiveHours = 7 * MinutesPerHour]_vars

\* the report over the work session of 120 minutes and the break session of
\* 15 minutes has been answered with 2.0 hours, 15 minutes and 1.75 hours
C27_Witness ==
    /\ proc[1].pc = "done"
    /\ proc[1].op = "GenerateUserTimeReport"
    /\ {x.ID : x \in sessions} = {1, 2}
    /\ Val(proc[1].ret).TotalHours = 120
    /\ Val(proc[1].ret).BreakMinutes = 15
    /\ Val(proc[1].ret).ProductiveHours = 105

\* the minutes of the closed breaks stored under the sessions of rows,
\* summed over the break IDs from 1 to n
RECURSIVE BreakMinutesOf(_, _)
BreakMinutesOf(rows, n) ==
    IF n = 0 THEN 0
    ELSE BreakMinutesOf(rows, n - 1)
         + (IF \E b \in breaks :
                  b.ID = n /\ b.EndTime # Nil
                  /\ \E x \in rows : x.ID = b.SessionID
            THEN (CHOOSE b \in breaks : b.ID = n).DurationMinutes
            ELSE 0)

\* C28: once the user's sessions are finished, no write having failed, the
\* user report over a window that holds them has in break_minutes the
\* minutes of the breaks taken with TakeBreak and ended inside those
\* sessions, and its productive_hours is the work hours less those minutes.
C28_ReportSubtractsRecordedBreaks ==
    [][(/\ OpenSessionsOf("u1") = {}
        /\ faults = 0
        /\ GenerateUserTimeReport(1, "u1", 0, 0, DayMinutes)) =>
          LET selected == SelectedFor("u1", 0, 0, DayMinutes)
              recorded == BreakMinutesOf(selected, nextBreakID - 1)
              report == Val(proc'[1].ret) IN
          /\ report.BreakMinutes = recorded
          /\ report.ProductiveHours
               = MinutesOf(WorkRows(selected), nextSessionID - 1) - recorded
      ]_vars

\* the report of a finished session of 105 minutes with an ended break of 15
\* minutes inside it says 1.75 hours, 0 break minutes and 1.75 productive
C28_ReportIgnoresRecordedBreak ==
    /\ proc[1].pc = "done"
    /\ proc[1].op = "GenerateUserTimeReport"
    /\ faults = 0
    /\ \E x \in ClosedSessions :
          /\ sessions = {x}
          /\ x.DurationMinutes = 105
          /\ \E b \in BreaksOf(x.ID) :
                b.DurationMinutes = 15 /\ b.EndTime = Some(15)
    /\ Val(proc[1].ret).TotalHours = 105
    /\ Val(proc[1].ret).BreakMinutes = 0
    /\ Val(proc[1].ret).ProductiveHours = 105

\* the whole days of the window [a, b], and 1 when it has none
DaysOrOne(a, b) ==
    IF (b - a) \div DayMinutes >= 1 THEN (b - a) \div DayMinutes ELSE 1

\* C29: in the user report, average_daily is total_hours divided by
\* max(1, days in the window) for every window; for a window that starts and
\* ends at the same instant it is total_hours.
C29_AverageDailyOverAtLeastOneDay ==
    [][\A u \in Users, pid \in ProjectIDs \cup {0}, w \in Windows :
         GenerateUserTimeReport(1, u, pid, w[1], w[2]) =>
            LET report == Val(proc'[1].ret) IN
            /\ report.AverageDaily.num * DaysOrOne(w[1], w[2])
                 = report.TotalHours * report.AverageDaily.den
            /\ w[1] = w[2] =>
                 report.AverageDaily.num
                   = report.TotalHours * report.AverageDaily.den]_vars

\* the same for the windows whose ends differ
C29_AverageDailyOverWholeDays ==
    [][\A u \in Users, pid \in ProjectIDs \cup {0}, w \in Windows :
         (/\ w[1] # w[2]
          /\ GenerateUserTimeReport(1, u, pid, w[1], w[2])) =>
            LET report == Val(proc'[1].ret) IN
            report.AverageDaily.num * DaysOrOne(w[1], w[2])
              = report.TotalHours * report.AverageDaily.den]_vars

\* a quotient that is the number 0
IsZero(q) == q.num = 0 /\ q.den # 0

\* C30: a user report whose selected set is empty and a project report of a
\* project without sessions are answered with success and no error, with 0
\* for every total, count and average, and no division by zero.
C30_ReportsTolerateEmptySet ==
    [][/\ \A u \in Users, pid \in ProjectIDs \cup {0}, w \in Windows :
            (/\ SelectedFor(u, pid, w[1], w[2]) = {}
             /\ GenerateUserTimeReport(1, u, pid, w[1], w[2])) =>
                LET report == Val(proc'[1].ret) IN
                /\ proc'[1].err = NoErr
                /\ proc'[1].resp = "Success"
                /\ report.TotalHours = 0
                /\ report.WorkSessions = 0
                /\ report.BreakMinutes = 0
                /\ report.ProductiveHours = 0
                /\ IsZero(report.AverageDaily)
       /\ \A u \in Users, pid \in projects :
            (/\ SessionsOfProject(pid) = {}
             /\ GetProjectCostReport(1, pid, u)) =>
                LET report == Val(proc'[1].ret) IN
                /\ proc'[1].err = NoErr
                /\ proc'[1].resp = "Success"
                /\ report.TotalHours = 0
                /\ report.TotalCost = 0
                /\ report.WorkSessions = 0
                /\ IsZero(report.AverageSession)]_vars

\* the project report has been answered for a project without sessions
C30_Witness ==
    /\ sessions = {}
    /\ proc[1].pc = "done"
    /\ proc[1].op = "GetProjectCostReport"
    /\ proc[1].resp = "Success"
    /\ Val(proc[1].ret).WorkSessions = 0
    /\ IsZero(Val(proc[1].ret).AverageSession)

\* the user report has been answered for a user without sessions in a window
\* of no length
C30_WitnessUserReport ==
    /\ sessions # {}
    /\ \A x \in sessions : x.UserID = "u2"
    /\ proc[1].pc = "done"
    /\ proc[1].op = "GenerateUserTimeReport"
    /\ proc[1].userID = "u1"
    /\ proc[1].resp = "Success"
    /\ Val(proc[1].ret).TotalHours = 0
    /\ IsZero(Val(proc[1].ret).AverageDaily)

\* C31: the project report is a fold over the sessions now stored for the
\* project: once the sessions started and finished on it are closed, no
\* write having failed, its total_hours is the sum of the durations of the
\* project's work-kind sessions and its average_session is total_hours
\* divided by the number of sessions.
C31_ProjectReportFoldsStoredSessions ==
    [][\A pid \in projects :
         (/\ sessions # {}
          /\ sessions = ClosedSessions
          /\ faults = 0
          /\ GetProjectCostReport(1, pid, "u1")) =>
            LET found == SessionsOfProject(pid)
                total == MinutesOf(WorkRows(found), nextSessionID - 1)
                report == Val(proc'[1].ret) IN
            /\ report.TotalHours = total
            /\ report.AverageSession.num * Cardinality(found)
                 = total * report.AverageSession.den]_vars

\* the project report of a project whose only session was finished after 90
\* minutes says 0 hours over 1 session
C31_ReportOfFinishedSessionSaysZero ==
    /\ proc[1].pc = "done"
    /\ proc[1].op = "GetProjectCostReport"
    /\ faults = 0
    /\ \E x \in ClosedSessions :
          /\ sessions = {x}
          /\ x.ProjectID = 1
          /\ x.DurationMinutes = 90
    /\ Val(proc[1].ret).WorkSessions = 1
    /\ Val(proc[1].ret).TotalHours = 0
    /\ IsZero(Val(proc[1].ret).AverageSession)

\* the users that have a session on a project
WorkersOf(projectID) == {x.UserID : x \in SessionsOfProject(projectID)}

\* C32: the active_workers of the project report is the number of distinct
\* users that have sessions on the project.
C32_ActiveWorkersCountsUsers ==
    [][\A u \in Users, pid \in projects :
         GetProjectCostReport(1, pid, u) =>
            Val(proc'[1].ret).ActiveWorkers
              = Cardinality(WorkersOf(pid))]_vars

\* the project report of a project with sessions of two users says 0 workers
C32_ReportOfTwoWorkersSaysZero ==
    /\ proc[1].pc = "done"
    /\ proc[1].op = "GetProjectCostReport"
    /\ WorkersOf(1) = Users
    /\ Val(proc[1].ret).WorkSessions >= 2
    /\ Val(proc[1].ret).ActiveWorkers = 0

\* C34: GET /sessions/active answers a user who has no pointer with a
\* success that says "not active" and carries no session, and answers with
\* an internal error only when the store failed.
C34_NoPointerAnsweredNotActive ==
    [][\A u \in Users :
         GetActiveSessionHandler(1, u) =>
            /\ ActiveRowsOf(activeSessions, u) = {} =>
                 (proc'[1].resp = "SuccessNotActive" /\ proc'[1].ret = Nil)
            /\ proc'[1].resp # "InternalError"]_vars

\* a user without a pointer has been answered with an internal error
C34_NoPointerAnsweredInternalError ==
    /\ proc[1].pc = "done"
    /\ proc[1].op = "GetActiveSession"
    /\ proc[1].userID = "u1"
    /\ ActiveRowsOf(activeSessions, "u1") = {}
    /\ faults = 0
    /\ proc[1].err = <<ErrNoActiveForUser>>
    /\ proc[1].resp = "InternalError"

\* the IDs of the sessions stored in rows
IDsOf(rows) == {x.ID : x \in rows}

\* C33: in every interleaving, a step that deletes a time_sessions row
\* deletes a row that no pointer references, before or after the step; the
\* only step that deletes one is the compensating delete of StartWorkSession,
\* and it deletes the session that start has just created.
C33_NoPointedSessionDeleted ==
    [][\A x \in sessions :
         x.ID \notin IDsOf(sessions') =>
            /\ PointersTo(activeSessions, x.ID) = {}
            /\ PointersTo(activeSessions', x.ID) = {}
            /\ \E p \in Procs :
                  /\ proc[p].pc = "start_rollback"
                  /\ proc'[p].pc = "done"
                  /\ proc[p].session = Some(x)]_vars

\* a start has deleted the session it created, its pointer having been
\* refused, while the pointer of another session is stored
C33_Witness ==
    /\ \E id \in 1..(nextSessionID - 1) : id \notin IDsOf(sessions)
    /\ \E a \in activeSessions : a.SessionID \in IDsOf(sessions)
    /\ \E p \in Procs :
          /\ proc[p].pc = "done"
          /\ proc[p].op = "StartWorkSession"
          /\ proc[p].err = <<ErrCreateActive, ErrStore>>
    /\ faults = 0

\* the store calls of StartWorkSession that follow the lookup of the project
AfterProjectCheck == {"start_create", "start_pointer", "start_rollback"}

\* C35: a StartWorkSession that names a project missing from the store
\* returns the project-not-found error and no session, writes no row in the
\* step that finds the project missing and never reaches the inserts, so
\* that no stored session names a missing project; when the user has a
\* pointer on arrival, the answer is the Conflict of the active-session
\* check and not the project error.
C35_MissingProjectStartsNothing ==
    [][\A p \in Procs :
          /\ (proc[p].pc = "start_project" /\ proc'[p] # proc[p]
                /\ proc[p].projectID \notin projects)
             => /\ proc'[p].pc = "done"
                /\ proc'[p].ret = Nil
                /\ proc'[p].resp = "InternalError"
                /\ proc'[p].err
                     = (IF proc[p].op = "StartWorkSession" THEN <<>>
                        ELSE <<ErrStartNew>>)
                       \o <<ErrProjectNotFound, ErrRecordNotFound>>
                /\ UNCHANGED store
          /\ proc'[p].pc \in AfterProjectCheck
             => proc'[p].projectID \in projects
          /\ \A x \in sessions' : x.ProjectID \in projects
          /\ \A a \in activeSessions' : a.ProjectID \in projects
          /\ \A u \in Users, pid \in ProjectIDs \ projects :
                (/\ HasActiveSession(u)
                 /\ StartWorkSession(p, pid, "A", u, Some(50)))
                => /\ proc'[p].pc = "done"
                   /\ proc'[p].err = <<ErrAlreadyActive>>
                   /\ proc'[p].resp = "Conflict"
      ]_vars

\* a start that named a missing project has failed with the project error
\* and nothing is stored
C35_Witness ==
    /\ \E p \in Procs :
          /\ proc[p].pc = "done"
          /\ proc[p].op = "StartWorkSession"
          /\ proc[p].err = <<ErrProjectNotFound, ErrRecordNotFound>>
    /\ sessions = {}
    /\ activeSessions = {}
    /\ nextSessionID = 1

\* the operations that run the steps of FinishWorkSession
FinishingOps == {"FinishWorkSession", "SwitchProject", "SwitchCompany"}

\* C36: a stored session goes from open to closed only in the update step of
\* FinishWorkSession, run for a finish or as the first phase of a switch, and
\* the row written is the one that step closed; in every other step, a
\* minute passing included, an open session stays stored as it is, unless
\* the start that created it deletes it in its rollback.
C36_OnlyFinishClosesSession ==
    [][\A x \in sessions :
         x.EndTime = Nil =>
            \/ x \in sessions'
            \/ \E p \in Procs :
                  /\ proc[p].pc = "finish_update"
                  /\ proc[p].op \in FinishingOps
                  /\ proc'[p].pc = "finish_delete"
                  /\ Val(proc[p].session).ID = x.ID
                  /\ Val(proc[p].session).EndTime # Nil
                  /\ Val(proc[p].session) \in sessions'
            \/ \E p \in Procs :
                  /\ proc[p].pc = "start_rollback"
                  /\ proc[p].session = Some(x)
                  /\ x.ID \notin IDsOf(sessions')]_vars

\* a session left open while a minute passed has been closed by the finish
\* step of a SwitchProject that has not yet started the next session
C36_Witness ==
    \E p \in Procs :
        /\ proc[p].pc = "finish_delete"
        /\ proc[p].op = "SwitchProject"
        /\ Val(proc[p].session) \in ClosedSessions
        /\ Val(proc[p].session).StartTime < Val(Val(proc[p].session).EndTime)
        /\ OpenSessionsOf(proc[p].userID) = {}

\* C37: once a session is stored closed, its end_time, duration and cost
\* are the same in every later state, also when two finishes of one user
\* interleave and when a finish is repeated after its pointer delete failed.
C37_ClosedSessionNeverRewritten ==
    [][\A x \in ClosedSessions : \A y \in sessions' :
         y.ID = x.ID =>
            /\ y.EndTime = x.EndTime
            /\ y.DurationMinutes = x.DurationMinutes
            /\ y.SessionCost = x.SessionCost]_vars

\* the same when no store write fails
C37_ClosedSessionNeverRewrittenNoFault ==
    [][faults' = 0 =>
         \A x \in ClosedSessions : \A y \in sessions' :
            y.ID = x.ID =>
               /\ y.EndTime = x.EndTime
               /\ y.DurationMinutes = x.DurationMinutes
               /\ y.SessionCost = x.SessionCost]_vars

\* C38: in every reachable state the SessionID of every pointer names a
\* stored open session of the pointer's user, and the pointer's CompanyID,
\* ProjectID and StartedAt are that session's company, project and
\* start_time.
C38_PointerNamesOwnOpenSession ==
    \A a \in activeSessions :
        \E x \in sessions :
            /\ x.ID = a.SessionID
            /\ x.EndTime = Nil
            /\ x.IsActive
            /\ x.UserID = a.UserID
            /\ x.CompanyID = a.CompanyID
            /\ x.ProjectID = a.ProjectID
            /\ x.StartTime = a.StartedAt

\* the same without the requirement that the session is open
C38_PointerNamesOwnSession ==
    \A a \in activeSessions :
        \E x \in sessions :
            /\ x.ID = a.SessionID
            /\ x.UserID = a.UserID
            /\ x.CompanyID = a.CompanyID
            /\ x.ProjectID = a.ProjectID
            /\ x.StartTime = a.StartedAt

\* a finish has failed in its pointer delete: the pointer stays and names a
\* closed session
C38_PointerToClosedSessionAfterFinish ==
    /\ \E p \in Procs :
          /\ proc[p].pc = "done"
          /\ proc[p].op = "FinishWorkSession"
          /\ proc[p].err = <<ErrRemoveActive, ErrStore>>
    /\ \A p \in Procs : proc[p].pc \in {"idle", "done"}
    /\ \E a \in activeSessions : \E x \in ClosedSessions : x.ID = a.SessionID

\* C39: in every reachable state a pointer is on break exactly when its
\* CurrentBreakID is set, a set CurrentBreakID names an open break of the
\* pointer's session, and every open break is the CurrentBreakID of some
\* pointer.
C39_PointerAndOpenBreakAgree ==
    /\ \A a \in activeSessions :
          /\ a.IsOnBreak <=> a.CurrentBreakID # Nil
          /\ a.CurrentBreakID # Nil =>
                \E b \in OpenBreaksOf(a.SessionID) :
                    b.ID = Val(a.CurrentBreakID)
    /\ \A b \in breaks :
          b.EndTime = Nil =>
              \E a \in activeSessions : a.CurrentBreakID = Some(b.ID)

\* the part of it that no step breaks: on_break and CurrentBreakID are
\* written together, and a set CurrentBreakID names a stored break of the
\* pointer's session
C39_OnBreakIffBreakIDSet ==
    \A a \in activeSessions :
        /\ a.IsOnBreak <=> a.CurrentBreakID # Nil
        /\ a.CurrentBreakID # Nil =>
              \E b \in BreaksOf(a.SessionID) : b.ID = Val(a.CurrentBreakID)

\* a TakeBreak has failed in its pointer update: the break it inserted stays
\* open and no pointer names it
C39_OrphanOpenBreakAfterTakeBreak ==
    /\ \E p \in Procs :
          /\ proc[p].pc = "done"
          /\ proc[p].op = "TakeBreak"
          /\ proc[p].err = <<ErrUpdateActive, ErrStore>>
    /\ \A p \in Procs : proc[p].pc \in {"idle", "done"}
    /\ \E b \in breaks :
          /\ b.EndTime = Nil
          /\ \A a \in activeSessions : a.CurrentBreakID # Some(b.ID)

\* an EndBreak has failed in its pointer update: the pointer is on break and
\* the break it names is closed
C39_PointerOnClosedBreakAfterEndBreak ==
    /\ \E p \in Procs :
          /\ proc[p].pc = "done"
          /\ proc[p].op = "EndBreak"
          /\ proc[p].err = <<ErrUpdateActive, ErrStore>>
    /\ \A p \in Procs : proc[p].pc \in {"idle", "done"}
    /\ \E a \in activeSessions :
          /\ a.IsOnBreak
          /\ \E b \in breaks :
                b.ID = Val(a.CurrentBreakID) /\ b.EndTime # Nil

C40_DeleteRefusedWhileSessionActive ==
    [][\A p \in Procs :
          (/\ DeleteCheckActiveSessions(p)
           /\ \E x \in sessions :
                 x.ProjectID = proc[p].projectID /\ x.IsActive)
          => /\ proc'[p].pc = "done"
             /\ proc'[p].err = <<ErrProjectHasActiveSessions>>
             /\ proc'[p].resp = "InternalError"
             /\ proc[p].projectID \in projects'
             /\ UNCHANGED store]_vars

\* a delete has been refused for an active session
C40_DeleteRefused ==
    \E p \in Procs :
        /\ proc[p].pc = "done"
        /\ proc[p].op = "DeleteProfessionalProject"
        /\ proc[p].err = <<ErrProjectHasActiveSessions>>
        /\ \E x \in sessions : x.IsActive

\* a start and a delete have both succeeded and every request has returned:
\* the worker's open session and pointer name a project that is gone
C40_StartedOnDeletedProject ==
    /\ proc[1].pc = "done" /\ proc[1].op = "StartWorkSession"
    /\ proc[1].err = NoErr
    /\ proc[2].pc = "done" /\ proc[2].op = "DeleteProfessionalProject"
    /\ proc[2].err = NoErr
    /\ faults = 0
    /\ \E x \in sessions : x.EndTime = Nil /\ x.ProjectID \notin projects
    /\ \E a \in activeSessions : a.ProjectID \notin projects

====
